---- MODULE Spec2Model ----
(***************************************************************************)
(* A model of the RAG query service (Ibzie/Simple_Rag_Backend):            *)
(* the /query route, QueryAgent.query and the retrieval, fusion,           *)
(* diversity, validation and grounding helpers it calls, and the /ingest    *)
(* route with chunk_text and the index files of IngestService.             *)
(*                                                                         *)
(* Conventions                                                             *)
(*  - a Python str is a sequence of one-character strings;                 *)
(*  - a Python float is a fixed-point number: the nearest multiple of      *)
(*    1/Scale (TLC's integers have 32 bits, and the sums of reciprocals    *)
(*    that hybrid retrieval forms have no common denominator that fits);   *)
(*  - a Python dict is the sequence of its [key, value] entries in         *)
(*    insertion order (dicts iterate in insertion order);                  *)
(*  - a sentence-transformers embedding is a unit vector in the plane at   *)
(*    a multiple of 60 degrees, so that cosines and squared L2 distances   *)
(*    are exact (cos in {1, 1/2, -1/2, -1});                               *)
(*  - list positions handed out by numpy / FAISS are 0-based, as in the    *)
(*    code; TLA+ sequences are 1-based.                                    *)
(***************************************************************************)
EXTENDS Integers, Sequences, FiniteSets, TLC

VARIABLES
    \* ---- reciprocal_rank_fusion called on its own (SpecRRF, SpecRRFSame)
    rankings,        \* the rankings argument
    k,               \* the k argument; 0 stands for None (both are falsy)
    rrf_out,         \* Obj(the returned list), NoObject before the call
    \* ---- the shared services
    index,           \* IngestService: faiss_index, bm25_index, bm25_corpus, index_to_chunk_id
    db,              \* the chunks table: a sequence of rows
    disk,            \* the two index files: [faiss, bm25], NoObject for a file not there
    ingest,          \* Obj([at, new, before]): the /ingest request being handled and
                     \* how far it has come; NoObject when there is none
    reads,           \* Obj([method, seen]): the /query request being handled and the
                     \* index each of its retrieve calls read; NoObject when there is none
    \* ---- RetrievalService.retrieve called on its own (SpecRetrieve)
    r_args,          \* [method, top_k, use_rerank, orc]: the arguments of the call and
                     \* what the collaborators answer during it
    r_out,           \* the outcome of the call, or NotCalled
    \* ---- a helper called on its own (SpecMMR, SpecValidate, SpecGrounding)
    fn_args,         \* Obj(the arguments of the call), NoObject when unused
    fn_out,          \* Obj(the value returned), NoObject before the call
    \* ---- one request through POST /query or QueryAgent.query (Spec)
    request,         \* [entry, query, method, use_rerank, top_k]
    pc,              \* where the request is
    query_variants,  \* expand_query's result
    vi,              \* position of the loop over query_variants (1-based)
    results,         \* per loop iteration: what retrieve returned
    all_results,     \* dict chunk_id -> best score
    retrieval_by_variant, \* dict variant -> retrieved ids
    sel,             \* [deduped_results, candidates, chunk_data, selected_ids, source_chunks]
    validation_result, \* Obj(validate's result), NoObject before the call
    answer,          \* Obj(generate_answer's result), NoObject before the call
    response,        \* Obj(what the caller receives), NoObject until then
    calls,           \* how many calls each collaborator has received
    llm              \* what the language-model provider did, call by call

rrfVars == <<rankings, k, rrf_out>>
svcVars == <<index, db, disk, ingest, reads>>
retrVars == <<r_args, r_out>>
fnVars == <<fn_args, fn_out>>
reqVars == <<request, pc, query_variants, vi, results, all_results,
             retrieval_by_variant, sel, validation_result, answer, response, calls, llm>>
vars == <<rrfVars, svcVars, retrVars, fnVars, reqVars>>

NotCalled == "NotCalled"
None == "None"
\* A variable or field that holds either Python's None or an object holds
\* the empty tuple or the one-tuple of the object.
NoObject == <<>>
Obj(x) == <<x>>
IsNone(o) == o = <<>>
Val(o) == o[1]

(***************************************************************************)
(* Bounds of the model                                                     *)
(***************************************************************************)
MaxItems == 2        \* item ids in the rankings handed to reciprocal_rank_fusion
MaxSameItems == 3    \* length of the ranking fused with itself
MaxSmoothK == 3      \* explicit smoothing constants 1..MaxSmoothK (and RRF_K)
MaxChunks == 2       \* chunks in the store and the indices
MaxTopK == 2         \* the request's top_k / retrieve's breadth
MaxCandidates == 3   \* candidates handed to maximal_marginal_relevance on its own
MaxPooledIds == 3    \* chunk ids in the lists handed to validate on its own
MaxConsensus == 6    \* chunk ids every variant retrieves, for validate's limit of five
MaxTokens == 5       \* tokens of the text handed to chunk_text
MaxChunkSize == 3    \* explicit chunk_size arguments 1..MaxChunkSize
MaxWords == 5        \* words of the answers and sources handed to check_grounding on its own

(***************************************************************************)
(* Program constants                                                       *)
(***************************************************************************)
RRF_K == 60
HybridCap == 20
HybridFactor == 4
MinAltLen == 10
CHUNK_SIZE == 512
CHUNK_OVERLAP == 50

(***************************************************************************)
(* Arithmetic                                                              *)
(***************************************************************************)
Min(a, b) == IF a <= b THEN a ELSE b

\* the float n / d, for n >= 0 and d > 0, rounded to the nearest 1/Scale
Scale == 10000 * 10000
Float(n, d) == (2 * n * Scale + d) \div (2 * d)

(***************************************************************************)
(* Lists and dicts                                                         *)
(***************************************************************************)
Range(s) == {s[i] : i \in 1..Len(s)}
IsInjective(s) == \A i, j \in 1..Len(s) : s[i] = s[j] => i = j
Ids(res) == [i \in 1..Len(res) |-> res[i].id]
Take(s, n) == SubSeq(s, 1, Min(n, Len(s)))
InjSeqs(S, n) == {s \in UNION {[1..m -> S] : m \in 0..n} : IsInjective(s)}

\* the sort mutated: lowest score first
RECURSIVE InsertAsc(_, _)
InsertAsc(sorted, e) ==
    IF sorted = <<>> THEN <<e>>
    ELSE IF sorted[1].score > e.score THEN <<e>> \o sorted
    ELSE <<sorted[1]>> \o InsertAsc(Tail(sorted), e)
RECURSIVE SortedByScoreAsc(_)
SortedByScoreAsc(items) ==
    IF items = <<>> THEN <<>>
    ELSE InsertAsc(SortedByScoreAsc(SubSeq(items, 1, Len(items) - 1)), items[Len(items)])
\* sorted(items, key=lambda x: x[1], reverse=True): stable, so entries of
\* equal score keep their relative order.
RECURSIVE InsertDesc(_, _)
InsertDesc(sorted, e) ==
    IF sorted = <<>> THEN <<e>>
    ELSE IF sorted[1].score < e.score THEN <<e>> \o sorted
    ELSE <<sorted[1]>> \o InsertDesc(Tail(sorted), e)
RECURSIVE SortedByScoreDesc(_)
SortedByScoreDesc(items) ==
    IF items = <<>> THEN <<>>
    ELSE InsertDesc(SortedByScoreDesc(SubSeq(items, 1, Len(items) - 1)), items[Len(items)])

HasKey(dict, key) == \E i \in 1..Len(dict) : dict[i].id = key
KeyPos(dict, key) == CHOOSE i \in 1..Len(dict) : dict[i].id = key
Lookup(dict, key) == dict[KeyPos(dict, key)].score

(***************************************************************************)
(* utils/rrf.py: reciprocal_rank_fusion                                    *)
(***************************************************************************)
\* k = k or settings.RRF_K
EffectiveK(kArg) == IF kArg = 0 THEN RRF_K ELSE kArg

\* the body of the inner loop: one (rank, item_id) of one ranking
RRFAddZeroBased(item_scores, item_id, rank, kk) ==
    LET score == Float(1, kk + rank - 1)
    IN  IF HasKey(item_scores, item_id)
        THEN [item_scores EXCEPT ![KeyPos(item_scores, item_id)].score = @ + score]
        ELSE Append(item_scores, [id |-> item_id, score |-> score])
RRFAdd(item_scores, item_id, rank, kk) ==
    LET score == Float(1, kk + rank)
    IN  IF HasKey(item_scores, item_id)
        THEN [item_scores EXCEPT ![KeyPos(item_scores, item_id)].score = @ + score]
        ELSE Append(item_scores, [id |-> item_id, score |-> score])

RECURSIVE RRFRanking(_, _, _, _)
RRFRanking(item_scores, ranking, rank, kk) ==
    IF rank > Len(ranking) THEN item_scores
    ELSE RRFRanking(RRFAdd(item_scores, ranking[rank], rank, kk), ranking, rank + 1, kk)

RECURSIVE RRFRankings(_, _, _, _)
RRFRankings(item_scores, rks, r, kk) ==
    IF r > Len(rks) THEN item_scores
    ELSE RRFRankings(RRFRanking(item_scores, rks[r], 1, kk), rks, r + 1, kk)

reciprocal_rank_fusion(rks, kArg) ==
    SortedByScoreDesc(RRFRankings(<<>>, rks, 1, EffectiveK(kArg)))

(***************************************************************************)
(* Embeddings (services/embedder.py) and the two index libraries           *)
(***************************************************************************)
\* An embedding is the angle a * 60 degrees of a unit vector.
Angles == 0..5
\* twice the cosine of the angle between two embeddings
Cos2(a, b) ==
    LET d == (a - b + 6) % 6
    IN  CASE d = 0 -> 2
          [] d \in {1, 5} -> 1
          [] d \in {2, 4} -> -1
          [] OTHER -> -2
\* IndexFlatL2 reports squared L2 distances: |u - v|^2 = 2 - 2 cos
L2sq(a, b) == 2 - Cos2(a, b)

\* what embedder.embed_text returns for the text of chunk c
ChunkEmbedding(c) == (c - 1) % 6

\* Scores a BM25Okapi index may give a document.
BM25Scores == {0, 2}

\* list[i] for a Python list and an index numpy hands out: a negative index
\* counts from the end; outside -len..len-1 Python raises IndexError.
PyIndexOk(list, i) == -Len(list) <= i /\ i < Len(list)
PyGetItem(list, i) == IF i >= 0 THEN list[i + 1] ELSE list[Len(list) + i + 1]

\* np.argsort(scores)[::-1][:top_k]: the positions by descending score; the
\* default sort kind is not stable, so positions of equal score come in any order.
TopIndices(scores, top_k) ==
    LET n == Len(scores)
    IN  {Take(q, top_k) : q \in {p \in InjSeqs(0..(n - 1), n) :
            /\ Len(p) = n
            /\ \A i \in 1..(n - 1) : scores[p[i] + 1] >= scores[p[i + 1] + 1]}}

\* faiss_index.search(query_vector, k): the k nearest stored vectors by
\* ascending distance (ties in any order); when the index holds fewer than k
\* vectors the missing labels are -1 and their distances the largest float.
PadLabel == -1
PadDistance == 1000 * 1000 - 1
FaissSearch(vectors, query_embedding, kk) ==
    LET n == Len(vectors)
        m == Min(n, kk)
        dist(p) == L2sq(query_embedding, vectors[p + 1].emb)
        orders == {o \in InjSeqs(0..(n - 1), m) :
            /\ Len(o) = m
            /\ \A i \in 1..(m - 1) : dist(o[i]) <= dist(o[i + 1])
            /\ \A p \in (0..(n - 1)) \ Range(o) : \A i \in 1..m : dist(o[i]) <= dist(p)}
    IN  {[i \in 1..kk |-> IF i <= m THEN [idx |-> o[i], distance |-> dist(o[i])]
                          ELSE [idx |-> PadLabel, distance |-> PadDistance]] : o \in orders}

(***************************************************************************)
(* services/retrieval_service.py                                           *)
(***************************************************************************)
\* What the collaborators answer for one query string: the BM25 scores of
\* the indexed corpus (lex), the embedding of the query (qemb), and the
\* score a BM25 index over the reranked candidates gives each chunk's text.
Oracles(ix, method, use_rerank) ==
    LET n == IF IsNone(ix.bm25_index) THEN 0 ELSE Len(Val(ix.bm25_index))
        lexes == IF method \in {"sparse", "hybrid"} THEN [1..n -> BM25Scores]
                 ELSE {[i \in 1..n |-> 0]}
        qembs == IF method \in {"dense", "hybrid"} THEN Angles ELSE {0}
        minis == IF method = "hybrid" /\ use_rerank THEN [1..MaxChunks -> BM25Scores]
                 ELSE {[c \in 1..MaxChunks |-> 0]}
    IN  {[lex |-> l, qemb |-> q, mini |-> m] : l \in lexes, q \in qembs, m \in minis}

\* One call's outcome: the exception raised or the list returned, and for
\* hybrid_retrieval the values of its locals when it returns.
NoTrace == [sparse_results |-> <<>>, faiss_results |-> <<>>, reranked |-> FALSE,
            dense_results |-> <<>>, sparse_ranking |-> <<>>, dense_ranking |-> <<>>]
Outcome(raised, res, trace) == [raised |-> raised, results |-> res, trace |-> trace]
Raised(what) == Outcome(what, <<>>, NoTrace)
NoOutcome == Outcome(NotCalled, <<>>, NoTrace)
Returned(res) == Outcome("none", res, NoTrace)

\* sparse_retrieval: the set of lists it may return
sparse_retrieval(ix, orc, top_k) ==
    IF IsNone(ix.bm25_index) \/ ix.bm25_corpus = <<>> THEN {Returned(<<>>)}
    ELSE { IF \E i \in 1..Len(top) : ~PyIndexOk(ix.index_to_chunk_id, top[i])
           THEN Raised("IndexError")
           ELSE Returned([i \in 1..Len(top) |->
                    [id |-> PyGetItem(ix.index_to_chunk_id, top[i]),
                     score |-> Float(orc.lex[top[i] + 1], 1)]])
           : top \in TopIndices(orc.lex, top_k) }

\* dense_retrieval: the set of lists it may return
dense_retrieval(ix, orc, top_k) ==
    IF IsNone(ix.faiss_index) \/ Len(Val(ix.faiss_index)) = 0 THEN {Returned(<<>>)}
    ELSE { IF \E i \in 1..Len(hits) : ~PyIndexOk(ix.index_to_chunk_id, hits[i].idx)
           THEN Raised("IndexError")
           ELSE Returned([i \in 1..Len(hits) |->
                    [id |-> PyGetItem(ix.index_to_chunk_id, hits[i].idx),
                     score |-> Float(1, 1 + hits[i].distance)]])
           : hits \in FaissSearch(Val(ix.faiss_index), orc.qemb, top_k) }

DbIds(dbv) == {dbv[i].id : i \in 1..Len(dbv)}

\* lines 134-151 of hybrid_retrieval: the vector branch after the rerank block
Rerank(dbv, orc, dense_results) ==
    LET InDb(e) == e.id \in DbIds(dbv)
        mini == SelectSeq(dense_results, InDb)
    IN  IF mini = <<>> THEN dense_results
        ELSE [i \in 1..Len(mini) |->
                [id |-> mini[i].id, score |-> Float(orc.mini[mini[i].id], 1)]]

RetrieveK(top_k) == Min(top_k * HybridFactor, HybridCap)

\* hybrid_retrieval: the set of traces it may produce
hybrid_retrieval(ix, dbv, orc, top_k, use_rerank) ==
    { IF sp.raised # "none" THEN Raised(sp.raised)
      ELSE IF de.raised # "none" THEN Raised(de.raised)
      ELSE LET reranked == use_rerank /\ de.results # <<>>
               dense_results == IF reranked THEN Rerank(dbv, orc, de.results) ELSE de.results
               sparse_ranking == Ids(sp.results)
               dense_ranking == Ids(dense_results)
               rrf_results == reciprocal_rank_fusion(<<sparse_ranking, dense_ranking>>, 0)
           IN  Outcome("none", Take(rrf_results, top_k),
                  [sparse_results |-> sp.results, faiss_results |-> de.results,
                   reranked |-> reranked, dense_results |-> dense_results,
                   sparse_ranking |-> sparse_ranking, dense_ranking |-> dense_ranking])
      : sp \in sparse_retrieval(ix, orc, RetrieveK(top_k)),
        de \in dense_retrieval(ix, orc, RetrieveK(top_k)) }

Methods == {"sparse", "dense", "hybrid"}

\* retrieve: dispatch on the method
retrieve(ix, dbv, orc, method, top_k, use_rerank) ==
    CASE method = "sparse" -> sparse_retrieval(ix, orc, top_k)
      [] method = "dense" -> dense_retrieval(ix, orc, top_k)
      [] method = "hybrid" -> hybrid_retrieval(ix, dbv, orc, top_k, use_rerank)
      [] OTHER -> {Raised("ValueError")}

(***************************************************************************)
(* services/ingest_service.py: the index state                             *)
(***************************************************************************)
\* IngestService.__init__
Constructed == [faiss_index |-> NoObject, bm25_index |-> NoObject,
                bm25_corpus |-> <<>>, index_to_chunk_id |-> <<>>]

\* the row the chunks table holds for chunk c
ChunkRow(c) == [id |-> c, emb |-> ChunkEmbedding(c)]

\* initialize_indices, lines 50-54: no FAISS file on disk
Initialized(ix) == [ix EXCEPT !.faiss_index = Obj(<<>>)]

\* the index files: none before the first save_indices
NoFiles == [faiss |-> NoObject, bm25 |-> NoObject]

\* initialize_indices: each of the two files is loaded if it is there
Loaded(ix, files) ==
    LET with_faiss == IF IsNone(files.faiss) THEN Initialized(ix)
                      ELSE [ix EXCEPT !.faiss_index = files.faiss]
    IN  IF IsNone(files.bm25) THEN with_faiss
        ELSE LET data == Val(files.bm25)
             IN  [with_faiss EXCEPT
                     !.bm25_corpus = data.corpus,
                     !.index_to_chunk_id = data.chunk_ids,
                     !.bm25_index = IF data.corpus # <<>> THEN Obj(data.corpus) ELSE @]

\* save_indices: faiss.write_index, then the pickle of corpus and chunk ids
FaissWritten(files, ix) == [files EXCEPT !.faiss = ix.faiss_index]
BM25Written(files, ix) ==
    [files EXCEPT !.bm25 = Obj([corpus |-> ix.bm25_corpus, chunk_ids |-> ix.index_to_chunk_id])]
Saved(files, ix) == BM25Written(FaissWritten(files, ix), ix)

\* the steps of ingest_document on the indices, for the chunk ids new
WithVectors(ix, new) ==
    [ix EXCEPT !.faiss_index =
        Obj(Val(@) \o [i \in 1..Len(new) |-> [of |-> new[i], emb |-> ChunkEmbedding(new[i])]])]
WithTokens(ix, new) ==
    [ix EXCEPT !.bm25_corpus = @ \o new, !.index_to_chunk_id = @ \o new]
Rebuilt(ix) ==
    IF ix.bm25_corpus # <<>> THEN [ix EXCEPT !.bm25_index = Obj(ix.bm25_corpus)] ELSE ix

\* ingest_document for a document of n chunks: rows c+1..c+n are committed,
\* their vectors added, their tokens appended and the BM25 index rebuilt
Ingested(ix, dbv, n) ==
    LET first == Len(dbv) + 1
        new == [i \in 1..n |-> first + i - 1]
        corpus == ix.bm25_corpus \o new
    IN  [faiss_index |-> Obj(Val(ix.faiss_index)
                                 \o [i \in 1..n |-> [of |-> new[i], emb |-> ChunkEmbedding(new[i])]]),
         bm25_index |-> IF corpus # <<>> THEN Obj(corpus) ELSE ix.bm25_index,
         bm25_corpus |-> corpus,
         index_to_chunk_id |-> ix.index_to_chunk_id \o new]

initialize_indices ==
    /\ IsNone(index.faiss_index)
    /\ index' = Loaded(index, disk)
    /\ UNCHANGED <<db, disk, ingest, reads>>

ingest_document ==
    /\ ~IsNone(index.faiss_index)
    /\ \E n \in 1..MaxChunks :
        /\ Len(db) + n <= MaxChunks
        /\ index' = Ingested(index, db, n)
        /\ db' = db \o [i \in 1..n |-> ChunkRow(Len(db) + i)]
        /\ disk' = Saved(disk, index')
    /\ UNCHANGED <<ingest, reads>>

(***************************************************************************)
(* Python str operations used by the code                                  *)
(***************************************************************************)
Whitespace == {" ", "\n", "\t"}
UpperCase == <<"A", "B", "C", "D", "E", "F", "G", "H", "I", "J", "K", "L", "M", "N", "O", "P", "Q", "R", "S", "T", "U", "V", "W", "X", "Y", "Z">>
LowerCase == <<"a", "b", "c", "d", "e", "f", "g", "h", "i", "j", "k", "l", "m", "n", "o", "p", "q", "r", "s", "t", "u", "v", "w", "x", "y", "z">>
Digits == {"0", "1", "2", "3", "4", "5", "6", "7", "8", "9"}

LowerChar(c) ==
    IF \E i \in 1..Len(UpperCase) : UpperCase[i] = c
    THEN LowerCase[CHOOSE i \in 1..Len(UpperCase) : UpperCase[i] = c]
    ELSE c
\* str.lower()
Lower(s) == [i \in 1..Len(s) |-> LowerChar(s[i])]

\* str.lstrip(chars), str.rstrip(chars), str.strip(chars)
RECURSIVE LStrip(_, _)
LStrip(s, chars) ==
    IF s # <<>> /\ s[1] \in chars THEN LStrip(Tail(s), chars) ELSE s
RECURSIVE RStrip(_, _)
RStrip(s, chars) ==
    IF s # <<>> /\ s[Len(s)] \in chars THEN RStrip(SubSeq(s, 1, Len(s) - 1), chars) ELSE s
StripChars(s, chars) == RStrip(LStrip(s, chars), chars)
\* str.strip()
Strip(s) == StripChars(s, Whitespace)

\* str.split(sep) for a one-character sep: every piece, the empty ones too
RECURSIVE SplitOn(_, _, _)
SplitOn(s, sep, piece) ==
    IF s = <<>> THEN <<piece>>
    ELSE IF s[1] = sep THEN <<piece>> \o SplitOn(Tail(s), sep, <<>>)
    ELSE SplitOn(Tail(s), sep, Append(piece, s[1]))
NonEmpty(piece) == piece # <<>>
\* str.split(): the maximal runs of non-whitespace characters
RECURSIVE SplitRuns(_, _)
SplitRuns(s, piece) ==
    IF s = <<>> THEN (IF piece = <<>> THEN <<>> ELSE <<piece>>)
    ELSE IF s[1] \in Whitespace
         THEN (IF piece = <<>> THEN <<>> ELSE <<piece>>) \o SplitRuns(Tail(s), <<>>)
    ELSE SplitRuns(Tail(s), Append(piece, s[1]))
Split(s) == SplitRuns(s, <<>>)

StartsWith(s, pat) == Len(s) >= Len(pat) /\ SubSeq(s, 1, Len(pat)) = pat
\* str.replace(pat, ""): the occurrences of pat removed, left to right
RECURSIVE Remove(_, _)
Remove(s, pat) ==
    IF s = <<>> THEN <<>>
    ELSE IF StartsWith(s, pat) THEN Remove(SubSeq(s, Len(pat) + 1, Len(s)), pat)
    ELSE <<s[1]>> \o Remove(Tail(s), pat)

\* str.isalnum() on the characters the model uses
IsAlnum(w) ==
    /\ w # <<>>
    /\ \A i \in 1..Len(w) : w[i] \in Range(UpperCase) \cup Range(LowerCase) \cup Digits

(***************************************************************************)
(* services/query_agent.py: expand_query                                   *)
(***************************************************************************)
Alternative1 == <<"A", "l", "t", "e", "r", "n", "a", "t", "i", "v", "e", " ", "1", ":">>
Alternative2 == <<"A", "l", "t", "e", "r", "n", "a", "t", "i", "v", "e", " ", "2", ":">>
NumberingChars == {"1", "2", ".", "-", ")", " "}
ExplainPrefix == <<"E", "x", "p", "l", "a", "i", "n", " ">>
WhatIsPrefix == <<"W", "h", "a", "t", " ", "i", "s", " ">>
QuestionMark == <<"?">>

\* lines 71-72: the line with labels and numbering removed
CleanLine(line) ==
    LStrip(Strip(Remove(Remove(line, Alternative1), Alternative2)), NumberingChars)

\* lines 69-74: the loop over lines[:2]
RECURSIVE AppendAlternatives(_, _)
AppendAlternatives(variants, lines) ==
    IF lines = <<>> THEN variants
    ELSE LET clean_line == CleanLine(lines[1])
         IN  AppendAlternatives(
                 IF clean_line # <<>> /\ Len(clean_line) > MinAltLen
                 THEN Append(variants, clean_line) ELSE variants,
                 Tail(lines))

\* lines 77-81 mutated: a parse that found too few alternatives repeats the original
PadWithOriginal(variants, original_query) ==
    IF Len(variants) < 3
    THEN LET v2 == Append(variants, original_query)
         IN  IF Len(v2) < 3 THEN Append(v2, original_query) ELSE v2
    ELSE variants
\* lines 77-81: the fallback when fewer than two alternatives were parsed
PadVariants(variants, original_query) ==
    IF Len(variants) < 3
    THEN LET v2 == Append(variants, ExplainPrefix \o Lower(original_query))
         IN  IF Len(v2) < 3
             THEN Append(v2, WhatIsPrefix \o Lower(original_query) \o QuestionMark)
             ELSE v2
    ELSE variants

\* What the language-model provider does with one request: it answers with
\* a text, or the call fails (HTTP error status, timeout, a reply that is
\* not the expected JSON). Every failure raises inside the caller's try.
Failures == {"http_error", "timeout", "malformed_reply"}
Replied(text) == [kind |-> "ok", text |-> text]
Failed(kind) == [kind |-> kind, text |-> <<>>]

\* lines 65-83 mutated: the original is not put first
ParseVariantsNoOriginal(original_query, generated) ==
    LET stripped == [i \in 1..Len(SplitOn(Strip(generated), "\n", <<>>)) |->
                        Strip(SplitOn(Strip(generated), "\n", <<>>)[i])]
        lines == SelectSeq(stripped, NonEmpty)
    IN  Take(PadVariants(AppendAlternatives(<<>>, Take(lines, 2)), original_query), 3)
\* lines 62-83: the variants parsed from the provider's text
ParseVariants(original_query, generated) ==
    LET generated_text == Strip(generated)
        pieces == SplitOn(generated_text, "\n", <<>>)
        stripped == [i \in 1..Len(pieces) |-> Strip(pieces[i])]
        lines == SelectSeq(stripped, NonEmpty)
        variants == AppendAlternatives(<<original_query>>, Take(lines, 2))
    IN  Take(PadVariants(variants, original_query), 3)

\* expand_query, given what the provider does
expand_query(original_query, provider) ==
    IF provider.kind = "ok" THEN ParseVariants(original_query, provider.text)
    ELSE <<original_query, original_query, original_query>>

\* generate_answer mutated: a provider failure propagates to the caller
GenerateAnswerRaising(provider) ==
    IF provider.kind = "ok"
    THEN [raised |-> FALSE,
          text |-> IF Strip(provider.text) = <<>> THEN <<"I", " ", "c", "o", "u", "l", "d", "n", "'", "t", " ", "g", "e", "n", "e", "r", "a", "t", "e", " ", "a", "n", " ", "a", "n", "s", "w", "e", "r", " ", "f", "r", "o", "m", " ", "t", "h", "e", " ", "p", "r", "o", "v", "i", "d", "e", "d", " ", "c", "o", "n", "t", "e", "x", "t", ".">> ELSE Strip(provider.text)]
    ELSE [raised |-> TRUE, text |-> <<>>]
\* generate_answer, given what the provider does: lines 112-141
CouldNotGenerate == <<"I", " ", "c", "o", "u", "l", "d", "n", "'", "t", " ", "g", "e", "n", "e", "r", "a", "t", "e", " ", "a", "n", " ", "a", "n", "s", "w", "e", "r", " ", "f", "r", "o", "m", " ", "t", "h", "e", " ", "p", "r", "o", "v", "i", "d", "e", "d", " ", "c", "o", "n", "t", "e", "x", "t", ".">>
ErrorGenerating == <<"E", "r", "r", "o", "r", " ", "g", "e", "n", "e", "r", "a", "t", "i", "n", "g", " ", "a", "n", "s", "w", "e", "r", ":", " ">>
generate_answer(provider) ==
    IF provider.kind = "ok"
    THEN LET answer_text == Strip(provider.text)
         IN  [raised |-> FALSE,
              text |-> IF answer_text = <<>> THEN CouldNotGenerate ELSE answer_text]
    ELSE [raised |-> FALSE, text |-> ErrorGenerating \o <<"p", "r", "o", "v", "i", "d", "e", "r", " ", "f", "a", "i", "l", "e", "d">>]

(***************************************************************************)
(* Floats of the diversity, validation and grounding code: multiples of    *)
(* 1/Unit                                                                  *)
(***************************************************************************)
Unit == 100 * 100
MMR_LAMBDA == 7000
ENTROPY_THRESHOLD == 3000
GROUNDING_THRESHOLD == 7000
ConsistencyBar == 6000       \* semantic_consistency > 0.6
LowConsistency == 3000       \* fewer than two consensus chunks
NeutralConsistency == 5000   \* fewer than two consensus embeddings
HighBelow == 2000            \* normalized_entropy < 0.2
LowAbove == 7000             \* normalized_entropy > 0.7
EntropyWeight == 6000        \* 0.6 * entropy_score
ConsistencyWeight == 4000    \* 0.4 * semantic_consistency
ConsensusFreq == 2           \* freq >= 2
ConsensusLimit == 5          \* consensus_chunks[:5]
HighOverlap == 8000          \* overlap_ratio >= 0.8
MediumOverlap == 6000        \* overlap_ratio >= 0.6
MinWordLen == 3              \* len(w) >= 3

\* sklearn's cosine_similarity of two embeddings
Cosine(a, b) == (Cos2(a, b) * Unit) \div 2

\* numpy.log of 1..120 in 1/Unit, additive over products (ln(a*b) = ln a + ln b
\* holds in the table as it does in the reals)
LnTable == <<0, 6931, 10986, 13862, 16094, 17917, 19459, 20793, 21972, 23025,
            23979, 24848, 25649, 26390, 27080, 27724, 28332, 28903, 29444, 29956,
            30445, 30910, 31355, 31779, 32188, 32580, 32958, 33321, 33673, 34011,
            34340, 34655, 34965, 35263, 35553, 35834, 36109, 36375, 36635, 36887,
            37136, 37376, 37612, 37841, 38066, 38286, 38501, 38710, 38918, 39119,
            39318, 39511, 39703, 39889, 40073, 40252, 40430, 40604, 40775, 40942,
            41109, 41271, 41431, 41586, 41743, 41896, 42047, 42194, 42341, 42484,
            42627, 42765, 42905, 43040, 43174, 43306, 43438, 43566, 43694, 43818,
            43944, 44067, 44188, 44307, 44426, 44543, 44659, 44772, 44886, 44997,
            45108, 45217, 45326, 45432, 45538, 45641, 45747, 45849, 45951, 46050,
            46151, 46249, 46347, 46442, 46539, 46634, 46728, 46820, 46913, 47004,
            47095, 47183, 47274, 47361, 47449, 47535, 47621, 47706, 47791, 47873>>
Ln(m) == LnTable[m]

RECURSIVE Sum(_)
Sum(s) == IF s = <<>> THEN 0 ELSE s[1] + Sum(Tail(s))
RECURSIVE Concat(_)
Concat(ss) == IF ss = <<>> THEN <<>> ELSE ss[1] \o Concat(Tail(ss))

(***************************************************************************)
(* utils/mmr.py                                                            *)
(***************************************************************************)
\* max(..., key=...) and numpy.argmax: the first position of a maximal value
FirstMax(values) ==
    CHOOSE i \in 1..Len(values) :
        /\ \A j \in 1..Len(values) : values[j] <= values[i]
        /\ \A j \in 1..(i - 1) : values[j] < values[i]

\* lines 60-78 mutated: the loop runs until no candidate remains
RECURSIVE MMRLoopToTheEnd(_, _, _, _, _, _)
MMRLoopToTheEnd(selected_indices, remaining_indices, relevance_scores, candidate_embs, lam, top_k) ==
    IF remaining_indices = <<>> THEN selected_indices
    ELSE LET MaxSim(idx) ==
                 LET similarities == [j \in 1..Len(selected_indices) |->
                         Cosine(candidate_embs[idx], candidate_embs[selected_indices[j]])]
                 IN  similarities[FirstMax(similarities)]
             mmr_scores == [i \in 1..Len(remaining_indices) |->
                 (lam * relevance_scores[remaining_indices[i]]
                    - (Unit - lam) * MaxSim(remaining_indices[i])) \div Unit]
             best_idx == remaining_indices[FirstMax(mmr_scores)]
             NotBest(i) == i # best_idx
         IN  MMRLoopToTheEnd(Append(selected_indices, best_idx),
                             SelectSeq(remaining_indices, NotBest),
                             relevance_scores, candidate_embs, lam, top_k)
\* lines 60-78 mutated: the similarity to the first pick only, not to every pick
RECURSIVE MMRLoopSeedSimilarity(_, _, _, _, _, _)
MMRLoopSeedSimilarity(selected_indices, remaining_indices, relevance_scores, candidate_embs, lam, top_k) ==
    IF ~(Len(selected_indices) < top_k /\ remaining_indices # <<>>) THEN selected_indices
    ELSE LET MaxSim(idx) == Cosine(candidate_embs[idx], candidate_embs[selected_indices[1]])
             mmr_scores == [i \in 1..Len(remaining_indices) |->
                 (lam * relevance_scores[remaining_indices[i]]
                    - (Unit - lam) * MaxSim(remaining_indices[i])) \div Unit]
             best_idx == remaining_indices[FirstMax(mmr_scores)]
             NotBest(i) == i # best_idx
         IN  MMRLoopSeedSimilarity(Append(selected_indices, best_idx),
                                   SelectSeq(remaining_indices, NotBest),
                                   relevance_scores, candidate_embs, lam, top_k)
\* lines 60-78: the selection loop; positions are 1-based here
RECURSIVE MMRLoop(_, _, _, _, _, _)
MMRLoop(selected_indices, remaining_indices, relevance_scores, candidate_embs, lam, top_k) ==
    IF ~(Len(selected_indices) < top_k /\ remaining_indices # <<>>) THEN selected_indices
    ELSE LET MaxSim(idx) ==
                 LET similarities == [j \in 1..Len(selected_indices) |->
                         Cosine(candidate_embs[idx], candidate_embs[selected_indices[j]])]
                 IN  similarities[FirstMax(similarities)]
             mmr_scores == [i \in 1..Len(remaining_indices) |->
                 (lam * relevance_scores[remaining_indices[i]]
                    - (Unit - lam) * MaxSim(remaining_indices[i])) \div Unit]
             best_idx == remaining_indices[FirstMax(mmr_scores)]
             NotBest(i) == i # best_idx
         IN  MMRLoop(Append(selected_indices, best_idx),
                     SelectSeq(remaining_indices, NotBest),
                     relevance_scores, candidate_embs, lam, top_k)

\* maximal_marginal_relevance mutated: the caller's lambda is ignored
MMRIgnoringLambda(query_embedding, candidate_embeddings, candidate_ids, lambda_param, top_k) ==
    IF Len(candidate_ids) <= top_k THEN candidate_ids
    ELSE LET relevance_scores == [i \in 1..Len(candidate_ids) |->
                 Cosine(query_embedding, candidate_embeddings[i])]
             first == FirstMax(relevance_scores)
             NotFirst(i) == i # first
             remaining_indices == SelectSeq([i \in 1..Len(candidate_ids) |-> i], NotFirst)
             selected_indices == MMRLoop(<<first>>, remaining_indices, relevance_scores,
                                         candidate_embeddings, MMR_LAMBDA, top_k)
         IN  [i \in 1..Len(selected_indices) |-> candidate_ids[selected_indices[i]]]
\* maximal_marginal_relevance; lambda_param 0 stands for None (both are falsy)
maximal_marginal_relevance(query_embedding, candidate_embeddings, candidate_ids, lambda_param, top_k) ==
    LET lam == IF lambda_param = 0 THEN MMR_LAMBDA ELSE lambda_param
    IN  IF Len(candidate_ids) <= top_k THEN candidate_ids
        ELSE LET relevance_scores == [i \in 1..Len(candidate_ids) |->
                     Cosine(query_embedding, candidate_embeddings[i])]
                 first == FirstMax(relevance_scores)
                 NotFirst(i) == i # first
                 remaining_indices == SelectSeq([i \in 1..Len(candidate_ids) |-> i], NotFirst)
                 selected_indices == MMRLoop(<<first>>, remaining_indices, relevance_scores,
                                             candidate_embeddings, lam, top_k)
             IN  [i \in 1..Len(selected_indices) |-> candidate_ids[selected_indices[i]]]

(***************************************************************************)
(* services/validator.py                                                   *)
(***************************************************************************)
\* Counter(all_retrieved_chunks): one entry per distinct id in first-seen
\* order, with the number of its occurrences
Counter(items) ==
    LET IsFirst(i) == \A j \in 1..(i - 1) : items[j] # items[i]
        firsts == SelectSeq([i \in 1..Len(items) |-> i], IsFirst)
    IN  [n \in 1..Len(firsts) |->
            [id |-> items[firsts[n]],
             count |-> Cardinality({j \in 1..Len(items) : items[j] = items[firsts[n]]})]]

\* NormalizedEntropy mutated: the entropy is not divided by ln(n)
EntropyNotNormalized(chunk_frequency) ==
    LET frequencies == [i \in 1..Len(chunk_frequency) |-> chunk_frequency[i].count]
        total == Sum(frequencies)
        weighted == Sum([i \in 1..Len(frequencies) |-> frequencies[i] * Ln(frequencies[i])])
    IN  (total * Ln(total) - weighted) \div total

\* lines 66-75: Shannon entropy of the frequencies over its maximum ln(n)
NormalizedEntropy(chunk_frequency) ==
    LET frequencies == [i \in 1..Len(chunk_frequency) |-> chunk_frequency[i].count]
        total == Sum(frequencies)
        weighted == Sum([i \in 1..Len(frequencies) |-> frequencies[i] * Ln(frequencies[i])])
        retrieval_entropy == (total * Ln(total) - weighted) \div total
        max_entropy == Ln(Len(chunk_frequency))
    IN  IF max_entropy > 0 THEN (retrieval_entropy * Unit) \div max_entropy ELSE 0

\* the chunk_data dict: entries [id, text, embedding, score]
HasChunk(chunk_data, chunk_id) == \E i \in 1..Len(chunk_data) : chunk_data[i].id = chunk_id
ChunkOf(chunk_data, chunk_id) ==
    chunk_data[CHOOSE i \in 1..Len(chunk_data) : chunk_data[i].id = chunk_id]

\* average pairwise cosine of the consensus embeddings (lines 93-102)
MeanPairwise(consensus_embeddings) ==
    LET n == Len(consensus_embeddings)
        pairs == {<<i, j>> \in (1..n) \X (1..n) : i < j}
        RECURSIVE SumPairs(_)
        SumPairs(ps) ==
            IF ps = {} THEN 0
            ELSE LET pr == CHOOSE x \in ps : TRUE
                 IN  Cosine(consensus_embeddings[pr[1]], consensus_embeddings[pr[2]])
                       + SumPairs(ps \ {pr})
    IN  SumPairs(pairs) \div Cardinality(pairs)

\* ConsensusEmbeddings mutated: every consensus chunk is considered
ConsensusEmbeddingsOfAll(consensus_chunks, chunk_data) ==
    LET InData(c) == HasChunk(chunk_data, c)
        with_data == SelectSeq(consensus_chunks, InData)
    IN  [i \in 1..Len(with_data) |-> ChunkOf(chunk_data, with_data[i]).embedding]

\* the embeddings of the first ConsensusLimit consensus chunks found in chunk_data
ConsensusEmbeddings(consensus_chunks, chunk_data) ==
    LET InData(c) == HasChunk(chunk_data, c)
        with_data == SelectSeq(Take(consensus_chunks, ConsensusLimit), InData)
    IN  [i \in 1..Len(with_data) |-> ChunkOf(chunk_data, with_data[i]).embedding]

\* SemanticConsistency mutated: the neutral value where the code sets the low one
SemanticConsistencyNeutralFallback(chunk_frequency, chunk_data) ==
    LET IsConsensus(e) == e.count >= ConsensusFreq
        consensus_chunks == Ids(SelectSeq(chunk_frequency, IsConsensus))
        consensus_embeddings == ConsensusEmbeddings(consensus_chunks, chunk_data)
    IN  IF Len(consensus_chunks) >= 2
        THEN IF Len(consensus_embeddings) >= 2 THEN MeanPairwise(consensus_embeddings)
             ELSE NeutralConsistency
        ELSE NeutralConsistency

\* lines 81-106
SemanticConsistency(chunk_frequency, chunk_data) ==
    LET IsConsensus(e) == e.count >= ConsensusFreq
        consensus_chunks == Ids(SelectSeq(chunk_frequency, IsConsensus))
        consensus_embeddings == ConsensusEmbeddings(consensus_chunks, chunk_data)
    IN  IF Len(consensus_chunks) >= 2
        THEN IF Len(consensus_embeddings) >= 2 THEN MeanPairwise(consensus_embeddings)
             ELSE NeutralConsistency
        ELSE LowConsistency

\* IsConfident mutated: the entropy alone decides
IsConfidentByEntropy(normalized_entropy, semantic_consistency) ==
    normalized_entropy < ENTROPY_THRESHOLD

\* lines 114-117
IsConfident(normalized_entropy, semantic_consistency) ==
    /\ normalized_entropy < ENTROPY_THRESHOLD
    /\ semantic_consistency > ConsistencyBar

\* Interpretation mutated: the entropy alone picks the text
InterpretationByEntropy(is_confident, normalized_entropy) ==
    IF normalized_entropy < HighBelow THEN "HIGH CONFIDENCE"
    ELSE IF normalized_entropy < ENTROPY_THRESHOLD THEN "MODERATE CONFIDENCE"
    ELSE IF normalized_entropy > LowAbove THEN "LOW CONFIDENCE"
    ELSE "UNCERTAIN"

\* lines 126-149: the leading words of the interpretation text
Interpretation(is_confident, normalized_entropy) ==
    IF is_confident
    THEN IF normalized_entropy < HighBelow THEN "HIGH CONFIDENCE"
         ELSE "MODERATE CONFIDENCE"
    ELSE IF normalized_entropy > LowAbove THEN "LOW CONFIDENCE"
         ELSE "UNCERTAIN"

\* _empty_validation mutated: an entropy of 0 for no results
EmptyValidationZeroEntropy ==
    [overall_confidence |-> 0, is_confident |-> FALSE, confidence_score |-> 0,
     retrieval_entropy |-> 0, semantic_consistency |-> 0,
     interpretation |-> "NO RESULTS"]
_empty_validation ==
    [overall_confidence |-> 0, is_confident |-> FALSE, confidence_score |-> 0,
     retrieval_entropy |-> Unit, semantic_consistency |-> 0,
     interpretation |-> "NO RESULTS"]

\* validate: query_variants and db are not read by the code
validate(by_variant, final_chunk_ids, chunk_data) ==
    LET all_retrieved_chunks == Concat([i \in 1..Len(by_variant) |-> by_variant[i].ids])
        chunk_frequency == Counter(all_retrieved_chunks)
    IN  IF Len(chunk_frequency) = 0 THEN _empty_validation
        ELSE LET normalized_entropy == NormalizedEntropy(chunk_frequency)
                 semantic_consistency == SemanticConsistency(chunk_frequency, chunk_data)
                 is_confident == IsConfident(normalized_entropy, semantic_consistency)
                 entropy_score == Unit - normalized_entropy
                 confidence_score == (EntropyWeight * entropy_score
                                        + ConsistencyWeight * semantic_consistency) \div Unit
                 interpretation == Interpretation(is_confident, normalized_entropy)
             IN  [overall_confidence |-> confidence_score, is_confident |-> is_confident,
                  confidence_score |-> confidence_score,
                  retrieval_entropy |-> normalized_entropy,
                  semantic_consistency |-> semantic_consistency,
                  interpretation |-> interpretation]

(***************************************************************************)
(* utils/hallucination.py                                                  *)
(***************************************************************************)
Punctuation == {".", ",", "!", "?", ";", ":", "(", ")", "[", "]", "{", "}", "\"", "'", "-"}

\* normalize: the set of kept words
Normalize(text) ==
    LET words == Split(Lower(text))
    IN  {StripChars(words[i], Punctuation) :
            i \in {j \in 1..Len(words) : Len(words[j]) >= MinWordLen /\ IsAlnum(words[j])}}

\* " ".join(source_chunks)
RECURSIVE JoinWithSpace(_)
JoinWithSpace(texts) ==
    IF texts = <<>> THEN <<>>
    ELSE IF Len(texts) = 1 THEN texts[1]
    ELSE texts[1] \o <<" ">> \o JoinWithSpace(Tail(texts))

\* check_grounding mutated: 'medium' follows the grounding threshold
CheckGroundingMediumIfGrounded(threshold, answer_text, source_chunks) ==
    LET answer_words == Normalize(answer_text)
        source_words == Normalize(JoinWithSpace(source_chunks))
        overlap == Cardinality(answer_words \cap source_words)
        total == Cardinality(answer_words)
    IN  IF answer_words = {}
        THEN [is_grounded |-> FALSE, overlap_ratio |-> 0, confidence |-> "low"]
        ELSE [is_grounded |-> overlap * Unit >= threshold * total,
              overlap_ratio |-> (overlap * Unit) \div total,
              confidence |-> IF overlap * Unit >= HighOverlap * total THEN "high"
                             ELSE IF overlap * Unit >= threshold * total THEN "medium"
                             ELSE "low"]

\* check_grounding mutated: an answer without words counts as fully grounded
CheckGroundingNoWordsGrounded(threshold, answer_text, source_chunks) ==
    LET answer_words == Normalize(answer_text)
        source_words == Normalize(JoinWithSpace(source_chunks))
        overlap == Cardinality(answer_words \cap source_words)
        total == Cardinality(answer_words)
    IN  IF answer_words = {}
        THEN [is_grounded |-> TRUE, overlap_ratio |-> Unit, confidence |-> "high"]
        ELSE [is_grounded |-> overlap * Unit >= threshold * total,
              overlap_ratio |-> (overlap * Unit) \div total,
              confidence |-> IF overlap * Unit >= HighOverlap * total THEN "high"
                             ELSE IF overlap * Unit >= MediumOverlap * total THEN "medium"
                             ELSE "low"]

\* check_grounding with settings.GROUNDING_THRESHOLD as configured (line 29)
check_grounding_with(threshold, answer_text, source_chunks) ==
    LET answer_words == Normalize(answer_text)
        source_words == Normalize(JoinWithSpace(source_chunks))
        overlapping_words == answer_words \cap source_words
        overlap == Cardinality(overlapping_words)
        total == Cardinality(answer_words)
    IN  IF answer_words = {}
        THEN [is_grounded |-> FALSE, overlap_ratio |-> 0, confidence |-> "low"]
        ELSE [is_grounded |-> overlap * Unit >= threshold * total,
              overlap_ratio |-> (overlap * Unit) \div total,
              confidence |-> IF overlap * Unit >= HighOverlap * total THEN "high"
                             ELSE IF overlap * Unit >= MediumOverlap * total THEN "medium"
                             ELSE "low"]

\* check_grounding under the default configuration
check_grounding(answer_text, source_chunks) ==
    check_grounding_with(GROUNDING_THRESHOLD, answer_text, source_chunks)

(***************************************************************************)
(* utils/chunking.py                                                       *)
(***************************************************************************)
\* list[start:stop] for any integers start and stop
PySlice(list, start, stop) ==
    LET Clamp(i) == IF i < 0 THEN (IF Len(list) + i < 0 THEN 0 ELSE Len(list) + i)
                    ELSE IF i > Len(list) THEN Len(list) ELSE i
    IN  SubSeq(list, Clamp(start) + 1, Clamp(stop))

\* lines 31-32: 'x or default' takes the default for None and for 0
ChunkSizeInUse(chunk_size) ==
    IF IsNone(chunk_size) \/ chunk_size = Obj(0) THEN CHUNK_SIZE ELSE Val(chunk_size)
OverlapInUse(overlap) ==
    IF IsNone(overlap) \/ overlap = Obj(0) THEN CHUNK_OVERLAP ELSE Val(overlap)

\* lines 44-47: the loop's variables before the first test of 'start < len(tokens)'
ChunkLoopEntry(tokens) == [start |-> 0, chunks |-> <<>>, returned |-> ~(0 < Len(tokens))]

\* lines 48-64: one pass of the while loop, and whether the function then returns
ChunkLoopPass(loop, tokens, chunk_size, overlap) ==
    LET end == loop.start + chunk_size
        chunk_tokens == PySlice(tokens, loop.start, end)
        start == loop.start + (chunk_size - overlap)
    IN  [start |-> start,
         chunks |-> Append(loop.chunks, chunk_tokens),
         returned |-> end >= Len(tokens) \/ ~(start < Len(tokens))]

(***************************************************************************)
(* The texts the model draws from                                          *)
(***************************************************************************)
\* queries
QueryMixedCase == <<"W", "h", "y", " ", "R", "A", "G", "?">>
QueryLower == <<"b", "m", "2", "5">>
Queries == {QueryMixedCase, QueryLower}

\* texts the provider may answer the expansion prompt with
ReplyLabelled == <<"A", "l", "t", "e", "r", "n", "a", "t", "i", "v", "e", " ", "1", ":", " ", "h", "o", "w", " ", "d", "o", "e", "s", " ", "r", "a", "g", " ", "w", "o", "r", "k", "\n", "\n", "A", "l", "t", "e", "r", "n", "a", "t", "i", "v", "e", " ", "2", ":", " ", "w", "h", "a", "t", " ", "i", "s", " ", "r", "a", "g", " ", "r", "e", "a", "l", "l", "y", "\n">>
ReplyNumberedThree == <<"1", ".", " ", "h", "o", "w", " ", "d", "o", "e", "s", " ", "r", "a", "g", " ", "w", "o", "r", "k", "\n", "2", ")", " ", "e", "x", "p", "l", "a", "i", "n", " ", "r", "a", "g", " ", "s", "i", "m", "p", "l", "y", "\n", "-", " ", "w", "h", "a", "t", " ", "i", "s", " ", "r", "a", "g", " ", "r", "e", "a", "l", "l", "y">>
ReplyOneLine == <<" ", " ", "h", "o", "w", " ", "d", "o", "e", "s", " ", "r", "a", "g", " ", "w", "o", "r", "k", " ">>
ReplyTenEleven == <<"a", "b", "c", "d", "e", "f", "g", "h", "i", "j", "\n", "a", "b", "c", "d", "e", "f", "g", "h", "i", "j", "k">>
ReplyEmpty == <<>>
ReplySameTwice == <<"h", "o", "w", " ", "d", "o", "e", "s", " ", "r", "a", "g", " ", "w", "o", "r", "k", "\n", "h", "o", "w", " ", "d", "o", "e", "s", " ", "r", "a", "g", " ", "w", "o", "r", "k">>
ExpansionReplies == {ReplyLabelled, ReplyNumberedThree, ReplyOneLine, ReplyTenEleven,
                     ReplyEmpty, ReplySameTwice}

\* the text of chunk c
ChunkTexts == <<<<"R", "A", "G", " ", "u", "s", "e", "s", " ", "r", "e", "t", "r", "i", "e", "v", "a", "l", ".">>,
                <<"b", "m", "2", "5", " ", "r", "a", "n", "k", "s", " ", "w", "o", "r", "d", "s">>,
                <<"v", "e", "c", "t", "o", "r", "s", " ", "f", "i", "n", "d", " ", "(", "s", "i", "m", "i", "l", "a", "r", ")", " ", "t", "e", "x", "t">>,
                <<"c", "h", "u", "n", "k", "s", " ", "o", "v", "e", "r", "l", "a", "p">>>>
ChunkText(c) == ChunkTexts[((c - 1) % Len(ChunkTexts)) + 1]

\* texts the provider may answer the synthesis prompt with
AnswerFromChunk == <<"r", "a", "g", " ", "u", "s", "e", "s", " ", "b", "m", "2", "5", " ", "w", "o", "r", "d", "s">>
AnswerBlank == <<" ", "\n">>
SynthesisReplies == {AnswerFromChunk, AnswerBlank}

(***************************************************************************)
(* services/query_agent.py: the steps of query                             *)
(***************************************************************************)
\* embedder.embed_text of the request's query
QueryEmbedding(q) == IF q = QueryMixedCase THEN 0 ELSE 2

\* what the collaborators may answer for the variant at position i: the
\* first variant is the request's query, whose embedding is fixed
VariantOracles(ix, req, i) ==
    {o \in Oracles(ix, req.method, req.use_rerank) :
        (i = 1 /\ req.method \in {"dense", "hybrid"}) => o.qemb = QueryEmbedding(req.query)}

\* the calls one retrieve makes: lines 33-40, 66-76 and 119-145 of
\* retrieval_service.py
RetrieveCalls(ix, method, use_rerank) ==
    LET sparse == method \in {"sparse", "hybrid"}
                    /\ ~(IsNone(ix.bm25_index) \/ ix.bm25_corpus = <<>>)
        dense == method \in {"dense", "hybrid"}
                    /\ ~(IsNone(ix.faiss_index) \/ Len(Val(ix.faiss_index)) = 0)
        rerank == method = "hybrid" /\ use_rerank /\ dense
    IN  [embed |-> IF dense THEN 1 ELSE 0,
         bm25 |-> IF sparse THEN 1 ELSE 0,
         faiss |-> IF dense THEN 1 ELSE 0,
         db |-> IF rerank THEN 1 ELSE 0]
AddCalls(a, b) == [embed |-> a.embed + b.embed, bm25 |-> a.bm25 + b.bm25,
                   faiss |-> a.faiss + b.faiss, db |-> a.db + b.db]

\* retrieval_by_variant[variant] = ids
SetVariant(by_variant, variant, ids) ==
    IF \E i \in 1..Len(by_variant) : by_variant[i].key = variant
    THEN [i \in 1..Len(by_variant) |->
            IF by_variant[i].key = variant THEN [key |-> variant, ids |-> ids]
            ELSE by_variant[i]]
    ELSE Append(by_variant, [key |-> variant, ids |-> ids])

\* lines 178-180 mutated: the score of the last variant that retrieved the chunk
RECURSIVE MergeLast(_, _)
MergeLast(best, res) ==
    IF res = <<>> THEN best
    ELSE LET e == res[1]
         IN  IF ~HasKey(best, e.id) THEN MergeLast(Append(best, e), Tail(res))
             ELSE MergeLast([best EXCEPT ![KeyPos(best, e.id)].score = e.score], Tail(res))
\* lines 178-180: the best score of each chunk id
RECURSIVE MergeBest(_, _)
MergeBest(best, res) ==
    IF res = <<>> THEN best
    ELSE LET e == res[1]
         IN  IF ~HasKey(best, e.id) THEN MergeBest(Append(best, e), Tail(res))
             ELSE IF e.score > Lookup(best, e.id)
                  THEN MergeBest([best EXCEPT ![KeyPos(best, e.id)].score = e.score], Tail(res))
                  ELSE MergeBest(best, Tail(res))

\* lines 193-205: chunk_data for the rows of the chunks table among the candidates
ChunkData(dbv, candidate_ids, best) ==
    LET IsCandidate(row) == row.id \in Range(candidate_ids)
        chunks == SelectSeq(dbv, IsCandidate)
    IN  [i \in 1..Len(chunks) |->
            [id |-> chunks[i].id, text |-> ChunkText(chunks[i].id),
             embedding |-> chunks[i].emb, score |-> Lookup(best, chunks[i].id)]]

\* lines 183-220: deduplicate, cut to the candidates, diversify
Select(dbv, req, best) ==
    LET deduped_results == SortedByScoreDesc(best)
        candidate_count == Min(req.top_k * 2, Len(deduped_results))
        candidates == Take(deduped_results, candidate_count)
        candidate_ids == Ids(candidates)
        chunk_data == ChunkData(dbv, candidate_ids, best)
        diversify == Len(candidates) > req.top_k
        missing == diversify /\ \E i \in 1..Len(candidate_ids) :
                                  ~HasChunk(chunk_data, candidate_ids[i])
        selected_ids ==
            IF missing THEN <<>>
            ELSE IF diversify
            THEN maximal_marginal_relevance(
                     QueryEmbedding(req.query),
                     [i \in 1..Len(candidate_ids) |->
                         ChunkOf(chunk_data, candidate_ids[i]).embedding],
                     candidate_ids, 0, req.top_k)
            ELSE Take(candidate_ids, req.top_k)
        InData(c) == HasChunk(chunk_data, c)
        with_data == SelectSeq(selected_ids, InData)
    IN  [raised |-> IF missing THEN "KeyError" ELSE "none",
         diversified |-> diversify,
         sel |-> [deduped_results |-> deduped_results, candidates |-> candidates,
                  chunk_data |-> chunk_data, selected_ids |-> selected_ids,
                  source_chunks |-> [i \in 1..Len(with_data) |->
                       [chunk_id |-> with_data[i],
                        text |-> ChunkOf(chunk_data, with_data[i]).text,
                        score |-> ChunkOf(chunk_data, with_data[i]).score]]]]

(***************************************************************************)
(* Idle values of the variables a specification does not use               *)
(***************************************************************************)
IdleRRF == rankings = <<>> /\ k = 0 /\ rrf_out = NoObject
IdleServices ==
    /\ index = Constructed /\ db = <<>>
    /\ disk = NoFiles /\ ingest = NoObject /\ reads = NoObject
IdleRetrieve == r_args = None /\ r_out = NoOutcome
IdleHelper == fn_args = NoObject /\ fn_out = NoObject
\* the request variables before a request is received
NoRequest == [entry |-> "none", query |-> <<>>, method |-> "none",
              use_rerank |-> FALSE, top_k |-> 0]
NoSelection == [deduped_results |-> <<>>, candidates |-> <<>>, chunk_data |-> <<>>,
                selected_ids |-> <<>>, source_chunks |-> <<>>]
NoCalls == [embed |-> 0, bm25 |-> 0, faiss |-> 0, db |-> 0]
IdleRequest ==
    /\ request = NoRequest /\ query_variants = <<>> /\ vi = 0
    /\ results = <<>> /\ all_results = <<>> /\ retrieval_by_variant = <<>>
    /\ sel = NoSelection /\ validation_result = NoObject /\ answer = NoObject
    /\ response = NoObject /\ calls = NoCalls /\ llm = <<>>

(***************************************************************************)
(* SpecRRF: reciprocal_rank_fusion on every small list of rankings         *)
(***************************************************************************)
Items == 1..MaxItems
RankingCounts == 1..3
KArgs == {0} \cup (1..MaxSmoothK) \cup {RRF_K}

FuseRankings ==
    /\ IsNone(rrf_out)
    /\ rrf_out' = Obj(reciprocal_rank_fusion(rankings, k))
    /\ UNCHANGED <<rankings, k, svcVars, retrVars, fnVars, reqVars>>

InitRRF ==
    /\ rankings \in UNION {[1..c -> InjSeqs(Items, MaxItems)] : c \in RankingCounts}
    /\ k \in KArgs
    /\ rrf_out = NoObject
    /\ IdleServices /\ IdleRetrieve /\ IdleHelper /\ IdleRequest /\ pc = "idle"
SpecRRF == InitRRF /\ [][FuseRankings]_vars

\* SpecRRFSame: one ranking of distinct items fused with itself, k > 0
InitRRFSame ==
    /\ \E r \in InjSeqs(1..MaxSameItems, MaxSameItems) : rankings = <<r, r>>
    /\ k \in (1..MaxSmoothK) \cup {RRF_K}
    /\ rrf_out = NoObject
    /\ IdleServices /\ IdleRetrieve /\ IdleHelper /\ IdleRequest /\ pc = "idle"
SpecRRFSame == InitRRFSame /\ [][FuseRankings]_vars

(***************************************************************************)
(* SpecRetrieve: RetrievalService.retrieve against the indices as          *)
(* startup and ingestion leave them                                        *)
(***************************************************************************)
MaxBreadth == MaxChunks + 1

CallRetrieve ==
    /\ r_out.raised = NotCalled
    /\ \E m \in Methods, top_k \in 1..MaxBreadth, use_rerank \in BOOLEAN :
        \E orc \in Oracles(index, m, use_rerank) :
            /\ r_args' = [method |-> m, top_k |-> top_k, use_rerank |-> use_rerank, orc |-> orc]
            /\ r_out' \in retrieve(index, db, orc, m, top_k, use_rerank)
    /\ UNCHANGED <<rrfVars, svcVars, fnVars, reqVars>>

\* the indices are set up before the call
StartUp ==
    /\ r_out.raised = NotCalled /\ pc \in {"idle", "start"}
    /\ initialize_indices
    /\ UNCHANGED <<rrfVars, retrVars, fnVars, reqVars>>
Ingest ==
    /\ r_out.raised = NotCalled /\ pc \in {"idle", "start"}
    /\ ingest_document
    /\ UNCHANGED <<rrfVars, retrVars, fnVars, reqVars>>

InitRetrieve == IdleRRF /\ IdleServices /\ IdleRetrieve /\ IdleHelper /\ IdleRequest /\ pc = "idle"
NextRetrieve == StartUp \/ Ingest \/ CallRetrieve
SpecRetrieve == InitRetrieve /\ [][NextRetrieve]_vars

(***************************************************************************)
(* Spec: one request through POST /query (api/routes.py) or through        *)
(* QueryAgent.query called directly, against the indices as startup and    *)
(* ingestion leave them                                                    *)
(***************************************************************************)
RequestMethods == Methods \cup {"foo"}

\* what the caller of the entry point receives
HTTPError(status) == [kind |-> "http_error", status |-> status, error |-> "HTTPException",
                      body |-> NoObject]
Propagated(what) == [kind |-> "exception", status |-> 0, error |-> what, body |-> NoObject]
Success(body) == [kind |-> "ok", status |-> 200, error |-> "none", body |-> Obj(body)]
\* routes.py lines 120-123: the route turns every other exception into a 500
Failure(req, what) == IF req.entry = "route" THEN HTTPError(500) ELSE Propagated(what)

ReceivedRequests(entry) ==
    {[entry |-> entry, query |-> q, method |-> m, use_rerank |-> r, top_k |-> t] :
        q \in Queries, m \in RequestMethods, r \in BOOLEAN, t \in 1..MaxTopK}

\* routes.py lines 101-118: the route validates the method, then calls the agent
query_documents ==
    /\ pc = "start"
    /\ \E req \in ReceivedRequests("route") :
        /\ request' = req
        /\ IF req.method \notin Methods
           THEN response' = Obj(HTTPError(400)) /\ pc' = "done"
           ELSE response' = response /\ pc' = "expand"
    /\ UNCHANGED <<rrfVars, svcVars, retrVars, fnVars, query_variants, vi, results, all_results,
                   retrieval_by_variant, sel, validation_result, answer, calls, llm>>

\* QueryAgent.query called by another caller than the route. What the agent
\* does with a recognised method is what follows query_documents, so this
\* entry draws the methods the route does not forward.
agent_query ==
    /\ pc = "start"
    /\ request' \in {req \in ReceivedRequests("agent") : req.method \notin Methods}
    /\ pc' = "expand"
    /\ UNCHANGED <<rrfVars, svcVars, retrVars, fnVars, query_variants, vi, results, all_results,
                   retrieval_by_variant, sel, validation_result, answer, response,
                   calls, llm>>

ExpansionOutcomes == {Replied(t) : t \in ExpansionReplies} \cup {Failed(f) : f \in Failures}
SynthesisOutcomes == {Replied(t) : t \in SynthesisReplies} \cup {Failed(f) : f \in Failures}

\* line 168
ExpandQuery ==
    /\ pc = "expand"
    /\ \E provider \in ExpansionOutcomes :
        /\ llm' = Append(llm, provider)
        /\ query_variants' = expand_query(request.query, provider)
    /\ vi' = 1
    /\ pc' = "retrieve"
    /\ UNCHANGED <<rrfVars, svcVars, retrVars, fnVars, request, results, all_results,
                   retrieval_by_variant, sel, validation_result, answer, response, calls>>

\* lines 174-180: one iteration of the loop over query_variants. The
\* collaborators are deterministic: a variant string seen before gets the
\* result it got before.
RetrieveVariant ==
    /\ pc = "retrieve"
    /\ LET variant == query_variants[vi]
           seen == {j \in 1..(vi - 1) : query_variants[j] = variant}
           outcomes ==
               IF seen # {} THEN {Returned(results[CHOOSE j \in seen : TRUE])}
               ELSE UNION {retrieve(index, db, orc, request.method, request.top_k * 2,
                                    request.use_rerank) :
                              orc \in VariantOracles(index, request, vi)}
       IN  \E out \in {[raised |-> o.raised, results |-> o.results] : o \in outcomes} :
            /\ calls' = AddCalls(calls, RetrieveCalls(index, request.method, request.use_rerank))
            /\ IF out.raised # "none"
               THEN /\ response' = Obj(Failure(request, out.raised))
                    /\ pc' = "done"
                    /\ UNCHANGED <<vi, results, all_results, retrieval_by_variant>>
               ELSE /\ results' = Append(results, out.results)
                    /\ retrieval_by_variant' =
                          SetVariant(retrieval_by_variant, variant, Ids(out.results))
                    /\ all_results' = MergeBest(all_results, out.results)
                    /\ vi' = vi + 1
                    /\ pc' = IF vi = Len(query_variants) THEN "select" ELSE "retrieve"
                    /\ UNCHANGED response
    /\ UNCHANGED <<rrfVars, svcVars, retrVars, fnVars, request, query_variants, sel,
                   validation_result, answer, llm>>

\* lines 183-250: deduplication, diversity selection, validation, sources
SelectAndValidate ==
    /\ pc = "select"
    /\ LET s == Select(db, request, all_results)
           n == Len(s.sel.chunk_data)
       IN  /\ sel' = s.sel
           /\ IF s.raised # "none"
              THEN /\ response' = Obj(Failure(request, s.raised))
                   /\ pc' = "done"
                   /\ calls' = AddCalls(calls, [embed |-> n, bm25 |-> 0, faiss |-> 0, db |-> 1])
                   /\ UNCHANGED validation_result
              ELSE /\ validation_result' =
                        Obj(validate(retrieval_by_variant, s.sel.selected_ids, s.sel.chunk_data))
                   /\ calls' = AddCalls(calls,
                        [embed |-> n + (IF s.diversified THEN 1 ELSE 0), bm25 |-> 0,
                         faiss |-> 0, db |-> 1 + Len(s.sel.source_chunks)])
                   /\ pc' = "generate"
                   /\ UNCHANGED response
    /\ UNCHANGED <<rrfVars, svcVars, retrVars, fnVars, request, query_variants, vi, results,
                   all_results, retrieval_by_variant, answer, llm>>

\* the response mutated: after_mmr counts the candidates handed to the selection
ResponseBodyCountingCandidates(req, variants, best, selection, validation, answer_text, grounding) ==
    [synthesized_answer |-> answer_text,
     source_chunks |-> selection.source_chunks,
     query_variants |-> variants,
     validation |->
        [entropy_analysis |->
            [is_confident |-> validation.is_confident,
             confidence_score |-> validation.confidence_score,
             retrieval_entropy |-> validation.retrieval_entropy,
             semantic_consistency |-> validation.semantic_consistency,
             interpretation |-> validation.interpretation],
         grounding_check |-> grounding,
         overall_confidence |-> validation.overall_confidence],
     retrieval_stats |->
        [method |-> IF req.use_rerank THEN req.method \o "_rerank" ELSE req.method,
         total_retrieved |-> Len(best),
         after_dedup |-> Len(selection.deduped_results),
         after_rerank |-> Len(selection.deduped_results),
         after_mmr |-> Len(selection.candidates)]]

\* lines 262-282: the response dict
ResponseBody(req, variants, best, selection, validation, answer_text, grounding) ==
    [synthesized_answer |-> answer_text,
     source_chunks |-> selection.source_chunks,
     query_variants |-> variants,
     validation |->
        [entropy_analysis |->
            [is_confident |-> validation.is_confident,
             confidence_score |-> validation.confidence_score,
             retrieval_entropy |-> validation.retrieval_entropy,
             semantic_consistency |-> validation.semantic_consistency,
             interpretation |-> validation.interpretation],
         grounding_check |-> grounding,
         overall_confidence |-> validation.overall_confidence],
     retrieval_stats |->
        [method |-> IF req.use_rerank THEN req.method \o "_rerank" ELSE req.method,
         total_retrieved |-> Len(best),
         after_dedup |-> Len(selection.deduped_results),
         after_rerank |-> Len(selection.deduped_results),
         after_mmr |-> Len(selection.selected_ids)]]

\* lines 253-282: answer generation, grounding check, response
Synthesize ==
    /\ pc = "generate"
    /\ \E provider \in SynthesisOutcomes :
        LET ans == generate_answer(provider)
            chunk_texts == [i \in 1..Len(sel.source_chunks) |-> sel.source_chunks[i].text]
        IN  /\ llm' = Append(llm, provider)
            /\ answer' = Obj(ans)
            /\ response' =
                 IF ans.raised
                 THEN Obj(Failure(request, "HTTPError"))
                 ELSE Obj(Success(ResponseBody(request, query_variants, all_results, sel,
                                               Val(validation_result), ans.text,
                                               check_grounding(ans.text, chunk_texts))))
    /\ pc' = "done"
    /\ UNCHANGED <<rrfVars, svcVars, retrVars, fnVars, request, query_variants, vi, results,
                   all_results, retrieval_by_variant, sel, validation_result, calls>>

Init == IdleRRF /\ IdleServices /\ IdleRetrieve /\ IdleHelper /\ IdleRequest /\ pc = "start"
Next ==
    \/ StartUp
    \/ Ingest
    \/ query_documents
    \/ agent_query
    \/ ExpandQuery
    \/ RetrieveVariant
    \/ SelectAndValidate
    \/ Synthesize
Spec == Init /\ [][Next]_vars

(***************************************************************************)
(* SpecMMR: maximal_marginal_relevance on every small candidate list       *)
(***************************************************************************)
\* distinct candidate ids that differ from their positions
CandidateIds(c) == [i \in 1..c |-> c + 1 - i]
\* lambda_param as the caller passes it: nothing, 0.0, the default, 1.0
Lambdas == {NoObject, Obj(0), Obj(MMR_LAMBDA), Obj(Unit)}
MMRArgs ==
    UNION {{[fn |-> "mmr", query_embedding |-> q, candidate_embeddings |-> embs,
             candidate_ids |-> CandidateIds(c), lambda_param |-> l, top_k |-> t] :
               q \in {0, 1}, embs \in [1..c -> Angles], l \in Lambdas,
               t \in 1..MaxCandidates} : c \in 0..MaxCandidates}

CallMMR ==
    /\ IsNone(fn_out) /\ ~IsNone(fn_args) /\ Val(fn_args).fn = "mmr"
    /\ LET a == Val(fn_args)
       IN  fn_out' = Obj(maximal_marginal_relevance(
                            a.query_embedding, a.candidate_embeddings, a.candidate_ids,
                            IF IsNone(a.lambda_param) THEN 0 ELSE Val(a.lambda_param),
                            a.top_k))
    /\ UNCHANGED <<rrfVars, svcVars, retrVars, fn_args, reqVars>>

InitMMR ==
    /\ \E a \in MMRArgs : fn_args = Obj(a)
    /\ fn_out = NoObject
    /\ IdleRRF /\ IdleServices /\ IdleRetrieve /\ IdleRequest /\ pc = "idle"
SpecMMR == InitMMR /\ [][CallMMR]_vars

\* SpecMMRDeep: one candidate more than SpecMMR has, so that a third pick is
\* made while a candidate is left over; the query embedding is fixed
DeepMMRArgs ==
    {[fn |-> "mmr", query_embedding |-> 0, candidate_embeddings |-> embs,
      candidate_ids |-> CandidateIds(MaxCandidates + 1), lambda_param |-> l, top_k |-> t] :
        embs \in [1..(MaxCandidates + 1) -> Angles], l \in Lambdas, t \in 2..MaxCandidates}
InitMMRDeep ==
    /\ \E a \in DeepMMRArgs : fn_args = Obj(a)
    /\ fn_out = NoObject
    /\ IdleRRF /\ IdleServices /\ IdleRetrieve /\ IdleRequest /\ pc = "idle"
SpecMMRDeep == InitMMRDeep /\ [][CallMMR]_vars

(***************************************************************************)
(* SpecValidate: validate on the per-variant lists retrieval can return    *)
(***************************************************************************)
\* what a retrieval over chunks 1..n returns without padding: no id, one id
\* or two distinct ids
PlainLists(n) ==
    {<<>>} \cup {<<a>> : a \in 1..n} \cup {<<a, b>> : <<a, b>> \in {x \in (1..n) \X (1..n) : x[1] # x[2]}}
\* what dense_retrieval over chunks 1..n returns for a breadth above n: every
\* chunk, then the last chunk id for each padding label
PaddedBreadths == {2 * 12, 2 * 20}
PaddedLists(n, breadth) ==
    {perm \o [i \in 1..(breadth - n) |-> n] :
        perm \in {q \in InjSeqs(1..n, n) : Len(q) = n}}
VariantKeys == <<"v1", "v2", "v3">>
ListTriples ==
    UNION {[1..3 -> PlainLists(n)] : n \in 0..MaxPooledIds}
      \cup UNION {[1..3 -> PaddedLists(n, b)] : n \in 1..2, b \in PaddedBreadths}
\* the dict has one entry per distinct variant string
ByVariant(lists, entries) == [i \in 1..entries |-> [key |-> VariantKeys[i], ids |-> lists[i]]]
\* chunk_data: chunk 1 at angle 0, chunk 2 along it or opposite to it, every
\* further chunk 120 degrees on; chunk 2 may be missing from the dict
ValidateEmbedding(c, second) == IF c = 1 THEN 0 ELSE IF c = 2 THEN second ELSE (2 * (c - 1)) % 6
ValidateChunkData(second, has_second) ==
    LET IsIn(c) == c # 2 \/ has_second
        present == SelectSeq([c \in 1..MaxPooledIds |-> c], IsIn)
    IN  [i \in 1..Len(present) |->
            [id |-> present[i], text |-> <<>>,
             embedding |-> ValidateEmbedding(present[i], second), score |-> 0]]
ValidateArgs ==
    {[fn |-> "validate", retrieval_by_variant |-> ByVariant(lists, entries),
      chunk_data |-> ValidateChunkData(second, has_second)] :
        lists \in ListTriples, entries \in 1..3, second \in {0, 3}, has_second \in BOOLEAN}

CallValidate ==
    /\ IsNone(fn_out) /\ ~IsNone(fn_args) /\ Val(fn_args).fn = "validate"
    /\ fn_out' = Obj(validate(Val(fn_args).retrieval_by_variant, <<>>, Val(fn_args).chunk_data))
    /\ UNCHANGED <<rrfVars, svcVars, retrVars, fn_args, reqVars>>

InitValidate ==
    /\ \E a \in ValidateArgs : fn_args = Obj(a)
    /\ fn_out = NoObject
    /\ IdleRRF /\ IdleServices /\ IdleRetrieve /\ IdleRequest /\ pc = "idle"
SpecValidate == InitValidate /\ [][CallValidate]_vars

(***************************************************************************)
(* SpecValidateMany: validate when two variants retrieve the same many ids *)
(***************************************************************************)
\* the first variant's list: chunks 1..n in ascending, descending or rotated order
ManyOrders(n) ==
    {[i \in 1..n |-> i], [i \in 1..n |-> n + 1 - i], [i \in 1..n |-> (i % n) + 1]}
\* the chunks' directions: 60, 120, 180, 0 degrees and round again
ManyEmbedding(c) == c % 4
\* chunk_data holds the chunks that made it into the candidates
ManyChunkData(held) ==
    LET IsIn(c) == c \in held
        present == SelectSeq([c \in 1..MaxConsensus |-> c], IsIn)
    IN  [i \in 1..Len(present) |->
            [id |-> present[i], text |-> <<>>, embedding |-> ManyEmbedding(present[i]),
             score |-> 0]]
ValidateManyArgs ==
    UNION {{[fn |-> "validate",
             retrieval_by_variant |-> ByVariant(<<first, [i \in 1..n |-> i]>>, 2),
             chunk_data |-> ManyChunkData(held)] :
               first \in ManyOrders(n), held \in SUBSET (1..MaxConsensus)} :
                  n \in 2..MaxConsensus}
InitValidateMany ==
    /\ \E a \in ValidateManyArgs : fn_args = Obj(a)
    /\ fn_out = NoObject
    /\ IdleRRF /\ IdleServices /\ IdleRetrieve /\ IdleRequest /\ pc = "idle"
SpecValidateMany == InitValidateMany /\ [][CallValidate]_vars

(***************************************************************************)
(* SpecGrounding: check_grounding on answers and sources of a few words    *)
(***************************************************************************)
Vocabulary == <<<<"c", "a", "t">>, <<"d", "o", "g">>, <<"o", "w", "l">>,
                <<"b", "e", "e">>, <<"f", "o", "x">>, <<"e", "l", "k">>>>
WordsAt(positions) ==
    LET IsIn(i) == i \in positions
        kept == SelectSeq([i \in 1..MaxWords |-> i], IsIn)
    IN  [i \in 1..Len(kept) |-> Vocabulary[kept[i]]]
\* answers in which no word is kept: blanks, a short word, punctuation
NoTokenAnswers == {<<" ", "\n">>, <<"o", "x">>, <<"?", "!">>, <<"o", "x", " ", "-", "-">>}
\* the answers: the first n words, and the first word again in capitals, a
\* two-letter word and a word with a full stop behind the first two words
GroundingAnswers ==
    {JoinWithSpace(WordsAt(1..n)) : n \in 0..MaxWords}
      \cup {JoinWithSpace(WordsAt(1..2) \o <<extra>>) :
              extra \in {<<"C", "A", "T">>, <<"o", "x">>, <<"o", "w", "l", ".">>}}
      \cup NoTokenAnswers
\* the sources: any of the words, in one chunk or split over two
GroundingSources ==
    UNION {{<<JoinWithSpace(WordsAt(ws))>>,
            <<JoinWithSpace(WordsAt(ws \cap (1..2))), JoinWithSpace(WordsAt(ws \ (1..2)))>>} :
              ws \in SUBSET (1..MaxWords)}
GroundingThresholds == {MediumOverlap, GROUNDING_THRESHOLD, HighOverlap}
GroundingArgs ==
    {[fn |-> "check_grounding", threshold |-> t, answer |-> a, source_chunks |-> src] :
        t \in GroundingThresholds, a \in GroundingAnswers, src \in GroundingSources}

CallCheckGrounding ==
    /\ IsNone(fn_out) /\ ~IsNone(fn_args) /\ Val(fn_args).fn = "check_grounding"
    /\ fn_out' = Obj(check_grounding_with(Val(fn_args).threshold, Val(fn_args).answer,
                                          Val(fn_args).source_chunks))
    /\ UNCHANGED <<rrfVars, svcVars, retrVars, fn_args, reqVars>>

InitGrounding ==
    /\ \E a \in GroundingArgs : fn_args = Obj(a)
    /\ fn_out = NoObject
    /\ IdleRRF /\ IdleServices /\ IdleRetrieve /\ IdleRequest /\ pc = "idle"
SpecGrounding == InitGrounding /\ [][CallCheckGrounding]_vars

(***************************************************************************)
(* SpecGroundingVerbatim: check_grounding on answers cut out of the source *)
(***************************************************************************)
\* every contiguous piece of the text, the empty one included
Substrings(text) == {SubSeq(text, i, j) : i \in 1..(Len(text) + 1), j \in 0..Len(text)}
VerbatimArgs ==
    {[fn |-> "check_grounding", threshold |-> GROUNDING_THRESHOLD, answer |-> a,
      source_chunks |-> <<ChunkTexts[c]>>] :
        <<c, a>> \in UNION {{c} \X Substrings(ChunkTexts[c]) : c \in 1..Len(ChunkTexts)}}
InitGroundingVerbatim ==
    /\ \E a \in VerbatimArgs : fn_args = Obj(a)
    /\ fn_out = NoObject
    /\ IdleRRF /\ IdleServices /\ IdleRetrieve /\ IdleRequest /\ pc = "idle"
SpecGroundingVerbatim == InitGroundingVerbatim /\ [][CallCheckGrounding]_vars

(***************************************************************************)
(* SpecChunk: chunk_text, one pass of its loop at a time                   *)
(***************************************************************************)
\* a pass that returns is among the first Len(tokens) passes whenever every
\* pass moves start forward; the passes are cut off after that
MaxPasses == MaxTokens + 2
\* chunk_size and overlap as the caller passes them: both left out, or
\* 0 <= overlap < chunk_size given
ChunkArgs ==
    {[fn |-> "chunk_text", tokens |-> [i \in 1..n |-> i], chunk_size |-> size, overlap |-> lap] :
        n \in 0..MaxTokens,
        <<size, lap>> \in {<<NoObject, NoObject>>}
            \cup {<<Obj(c), Obj(o)>> : <<c, o>> \in {x \in (1..MaxChunkSize) \X (0..MaxChunkSize) : x[2] < x[1]}}}
ChunkCalled == ~IsNone(fn_args) /\ Val(fn_args).fn = "chunk_text"

EnterChunkText ==
    /\ ChunkCalled /\ IsNone(fn_out)
    /\ fn_out' = Obj(ChunkLoopEntry(Val(fn_args).tokens))
    /\ UNCHANGED <<rrfVars, svcVars, retrVars, fn_args, reqVars>>
PassChunkLoop ==
    /\ ChunkCalled /\ ~IsNone(fn_out)
    /\ ~Val(fn_out).returned
    /\ Len(Val(fn_out).chunks) < MaxPasses
    /\ fn_out' = Obj(ChunkLoopPass(Val(fn_out), Val(fn_args).tokens,
                                   ChunkSizeInUse(Val(fn_args).chunk_size),
                                   OverlapInUse(Val(fn_args).overlap)))
    /\ UNCHANGED <<rrfVars, svcVars, retrVars, fn_args, reqVars>>

InitChunk ==
    /\ \E a \in ChunkArgs : fn_args = Obj(a)
    /\ fn_out = NoObject
    /\ IdleRRF /\ IdleServices /\ IdleRetrieve /\ IdleRequest /\ pc = "idle"
NextChunk == EnterChunkText \/ PassChunkLoop
SpecChunk == InitChunk /\ [][NextChunk]_vars
\* the interpreter runs the loop on: no pass is put off for ever
SpecChunkFair == SpecChunk /\ WF_vars(NextChunk)

(***************************************************************************)
(* SpecServe: the running service. POST /ingest and POST /query are        *)
(* handled on one event loop, ingest_document step by step with the        *)
(* places it can raise, and the process can stop and start again over the  *)
(* files and the database it left                                          *)
(***************************************************************************)
\* expand_query hands the loop of QueryAgent.query three variants
VariantsPerQuery == 3

\* Whether a handler at this place has given the event loop away: both
\* handlers are coroutines running synchronous code, and the only await in
\* either is the upload's file.read()
AwaitingAnywhere(handler, at) == TRUE
Awaiting(handler, at) == handler = "ingest" /\ at = "read"

\* the event loop can run a step of the handler named
LoopFreeFor(handler) ==
    CASE handler = "ingest" -> IF IsNone(reads) THEN TRUE ELSE Awaiting("query", "retrieve")
      [] handler = "query" -> IF IsNone(ingest) THEN TRUE ELSE Awaiting("ingest", Val(ingest).at)

Started == ~IsNone(index.faiss_index)
IngestAt(at) == ~IsNone(ingest) /\ Val(ingest).at = at
IngestGoes(at) ==
    /\ ingest' = Obj([Val(ingest) EXCEPT !.at = at])
    /\ UNCHANGED <<rrfVars, retrVars, fnVars, reqVars, reads>>

\* main.py lifespan: initialize_indices before the first request
ServeStartUp ==
    /\ ~Started
    /\ initialize_indices
    /\ UNCHANGED <<rrfVars, retrVars, fnVars, reqVars>>

\* routes.py ingest_document up to 'await file.read()'
ReceiveUpload ==
    /\ Started /\ IsNone(ingest) /\ LoopFreeFor("ingest")
    /\ Len(db) < MaxChunks
    /\ ingest' = Obj([at |-> "read", new |-> <<>>, before |-> index])
    /\ UNCHANGED <<rrfVars, retrVars, fnVars, reqVars, index, db, disk, reads>>

\* ingest_document lines 106-142: the rows of the n chunks are committed
IngestCommit ==
    /\ IngestAt("read") /\ LoopFreeFor("ingest")
    /\ \E n \in 1..(MaxChunks - Len(db)) :
        /\ db' = db \o [i \in 1..n |-> ChunkRow(Len(db) + i)]
        /\ ingest' = Obj([at |-> "committed", new |-> [i \in 1..n |-> Len(db) + i],
                         before |-> index])
    /\ UNCHANGED <<rrfVars, retrVars, fnVars, reqVars, index, disk, reads>>

\* lines 146-150: embed_batch and faiss_index.add
IngestAddVectors ==
    /\ IngestAt("committed") /\ LoopFreeFor("ingest")
    /\ index' = WithVectors(index, Val(ingest).new)
    /\ IngestGoes("added")
    /\ UNCHANGED <<db, disk>>

\* lines 153-157: the loop appending tokens and chunk ids
IngestAppend ==
    /\ IngestAt("added") /\ LoopFreeFor("ingest")
    /\ index' = WithTokens(index, Val(ingest).new)
    /\ IngestGoes("appended")
    /\ UNCHANGED <<db, disk>>

\* lines 160-161: BM25Okapi over the whole corpus
IngestRebuild ==
    /\ IngestAt("appended") /\ LoopFreeFor("ingest")
    /\ index' = Rebuilt(index)
    /\ IngestGoes("rebuilt")
    /\ UNCHANGED <<db, disk>>

\* save_indices line 76: faiss.write_index
SaveFaiss ==
    /\ IngestAt("rebuilt") /\ LoopFreeFor("ingest")
    /\ disk' = FaissWritten(disk, index)
    /\ IngestGoes("faiss_written")
    /\ UNCHANGED <<index, db>>

\* save_indices lines 79-83: the pickle; ingest_document returns, the handler responds
SaveBM25 ==
    /\ IngestAt("faiss_written") /\ LoopFreeFor("ingest")
    /\ disk' = BM25Written(disk, index)
    /\ ingest' = NoObject
    /\ UNCHANGED <<rrfVars, retrVars, fnVars, reqVars, index, db, reads>>

\* Where ingest_document can raise: decoding and chunking (before the
\* commit), embed_batch or faiss add, BM25Okapi, write_index, open or
\* pickle.dump. The handler answers 500; nothing is undone.
RaisingPlaces == {"read", "committed", "appended", "rebuilt", "faiss_written"}
IngestRaises ==
    /\ ~IsNone(ingest) /\ Val(ingest).at \in RaisingPlaces /\ LoopFreeFor("ingest")
    /\ ingest' = NoObject
    /\ UNCHANGED <<rrfVars, retrVars, fnVars, reqVars, index, db, disk, reads>>

\* routes.py query_documents up to the loop over the variants
ReceiveQuery ==
    /\ Started /\ IsNone(reads) /\ LoopFreeFor("query")
    /\ \E m \in Methods : reads' = Obj([method |-> m, seen |-> <<>>])
    /\ UNCHANGED <<rrfVars, retrVars, fnVars, reqVars, index, db, disk, ingest>>

\* query_agent.py lines 174-180: retrieve for the next variant
ServeRetrieve ==
    /\ ~IsNone(reads) /\ Len(Val(reads).seen) < VariantsPerQuery /\ LoopFreeFor("query")
    /\ \E orc \in Oracles(index, Val(reads).method, FALSE) :
        \E out \in retrieve(index, db, orc, Val(reads).method, 1, FALSE) :
            reads' = Obj([Val(reads) EXCEPT
                            !.seen = Append(@, [index |-> index, raised |-> out.raised])])
    /\ UNCHANGED <<rrfVars, retrVars, fnVars, reqVars, index, db, disk, ingest>>

\* the rest of the request reads no index: the handler responds, or
\* answers 500 on the exception of a retrieve call
ServeRespond ==
    /\ ~IsNone(reads) /\ LoopFreeFor("query")
    /\ \/ Len(Val(reads).seen) = VariantsPerQuery
       \/ \E i \in 1..Len(Val(reads).seen) : Val(reads).seen[i].raised # "none"
    /\ reads' = NoObject
    /\ UNCHANGED <<rrfVars, retrVars, fnVars, reqVars, index, db, disk, ingest>>

\* The process ends, at any place, and a new one is started: the module's
\* 'ingest_service = IngestService()' runs again, the requests in hand are
\* gone, the index files and the database stay.
Restart ==
    /\ Started
    /\ index' = Constructed /\ ingest' = NoObject /\ reads' = NoObject
    /\ UNCHANGED <<rrfVars, retrVars, fnVars, reqVars, db, disk>>

InitServe == IdleRRF /\ IdleServices /\ IdleRetrieve /\ IdleHelper /\ IdleRequest /\ pc = "idle"
NextServe ==
    \/ ServeStartUp
    \/ ReceiveUpload
    \/ IngestCommit
    \/ IngestAddVectors
    \/ IngestAppend
    \/ IngestRebuild
    \/ SaveFaiss
    \/ SaveBM25
    \/ IngestRaises
    \/ ReceiveQuery
    \/ ServeRetrieve
    \/ ServeRespond
    \/ Restart
SpecServe == InitServe /\ [][NextServe]_vars

(***************************************************************************)
(* Claims about reciprocal_rank_fusion                                     *)
(***************************************************************************)
AllItems(rks) == UNION {Range(rks[r]) : r \in 1..Len(rks)}
RankIn(ranking, item) == CHOOSE i \in 1..Len(ranking) : ranking[i] = item
\* sum over the first r rankings of 1/(kk + rank of item), 0 where it is absent
RECURSIVE FusedScore(_, _, _, _)
FusedScore(rks, r, item, kk) ==
    IF r = 0 THEN 0
    ELSE FusedScore(rks, r - 1, item, kk)
         + (IF item \in Range(rks[r]) THEN Float(1, kk + RankIn(rks[r], item)) ELSE 0)
SmoothingK == IF k = 0 THEN RRF_K ELSE k

\* C7: the fused list holds every item of some ranking exactly once, each
\* with the sum over the rankings containing it of 1/(k + rank), rank from 1
\* (k the constant passed, 60 when none is), in non-increasing score order.
C7_FusedScores ==
    ~IsNone(rrf_out) =>
        LET fused == Val(rrf_out)
        IN  /\ Range(Ids(fused)) = AllItems(rankings)
            /\ IsInjective(Ids(fused))
            /\ \A i \in 1..Len(fused) :
                 fused[i].score = FusedScore(rankings, Len(rankings), fused[i].id, SmoothingK)
            /\ \A i \in 1..(Len(fused) - 1) : fused[i].score >= fused[i + 1].score
\* three rankings, an item ranked differently in two of them and absent from
\* the third, and more than one fused item
C7_Witness ==
    /\ ~IsNone(rrf_out)
    /\ Len(rankings) = 3
    /\ Len(Val(rrf_out)) >= 2
    /\ \E it \in AllItems(rankings) : \E a, b, c \in 1..3 :
         /\ it \in Range(rankings[a]) /\ it \in Range(rankings[b])
         /\ RankIn(rankings[a], it) # RankIn(rankings[b], it)
         /\ it \notin Range(rankings[c])

\* C8: a ranking of distinct items fused with itself comes back in the same
\* order with strictly decreasing fused scores, for every k > 0.
C8_SameOrderStrict ==
    (~IsNone(rrf_out) /\ Len(rankings) = 2 /\ rankings[1] = rankings[2] /\ k > 0) =>
        LET fused == Val(rrf_out)
        IN  /\ Ids(fused) = rankings[1]
            /\ \A i \in 1..(Len(fused) - 1) : fused[i].score > fused[i + 1].score
C8_Witness ==
    /\ ~IsNone(rrf_out)
    /\ Len(rankings) = 2 /\ rankings[1] = rankings[2] /\ Len(rankings[1]) = 3
    /\ k = RRF_K
    /\ Len(Val(rrf_out)) = 3

(***************************************************************************)
(* Claims about RetrievalService.retrieve                                  *)
(***************************************************************************)
IndexedChunks == Len(index.index_to_chunk_id)

\* C6: retrieve returns at most K pairs, no chunk id twice, and at most as
\* many pairs as the index holds chunks (none when it is empty).
C6_AtMostKDistinct ==
    r_out.raised = "none" =>
        /\ Len(r_out.results) <= r_args.top_k
        /\ IsInjective(Ids(r_out.results))
        /\ Len(r_out.results) <= IndexedChunks

\* C9: with use_rerank and a non-empty vector branch, the vector branch
\* carries the scoped BM25 scores and the ranking handed to rank fusion
\* lists its candidates by those scores, highest first.
C9_RerankedOrder ==
    (r_out.raised = "none" /\ r_args.method = "hybrid" /\ r_out.trace.reranked) =>
        LET dense_results == r_out.trace.dense_results
        IN  /\ \A i \in 1..Len(dense_results) :
                 dense_results[i].score = Float(r_args.orc.mini[dense_results[i].id], 1)
            /\ r_out.trace.dense_ranking = Ids(dense_results)
            /\ \A i \in 1..(Len(dense_results) - 1) :
                 dense_results[i].score >= dense_results[i + 1].score

(***************************************************************************)
(* Claims about the request                                                *)
(***************************************************************************)
Received == request.entry # "none"
Expanded == Len(llm) >= 1
Responded == pc = "done" /\ ~IsNone(response)
Succeeded == Responded /\ Val(response).kind = "ok"
Body == Val(Val(response).body)
\* the first two non-empty lines of the provider's text that survive cleaning
UsableAlternatives(text) ==
    LET pieces == SplitOn(Strip(text), "\n", <<>>)
        lines == SelectSeq([i \in 1..Len(pieces) |-> Strip(pieces[i])], NonEmpty)
    IN  AppendAlternatives(<<>>, Take(lines, 2))

\* C1: a request whose method is not sparse, dense or hybrid is rejected
\* before any work: no language-model call, no embedding call, no
\* keyword-index or vector-index call and no chunk-store call is made for
\* it, at the /query route and in QueryAgent.query alike.
C1_RejectedBeforeAnyWork ==
    (Received /\ request.method \notin Methods) =>
        /\ llm = <<>>
        /\ calls = NoCalls
        /\ Responded => Val(response).kind # "ok"

Thrice(o) == <<o, o, o>>
JustExpanded == Len(llm) = 1 /\ vi = 1 /\ results = <<>>

\* C3 as stated: when the expansion call fails, times out or answers with
\* fewer than two usable alternatives, expand_query yields
\* [original, original, original].
C3_FallbackIsOriginalThrice ==
    (Expanded /\ (llm[1].kind # "ok" \/ Len(UsableAlternatives(llm[1].text)) < 2)) =>
        query_variants = Thrice(request.query)

\* C3 amended: when the expansion call fails or times out, expand_query
\* yields [original, original, original]; when it answers with fewer than
\* two usable alternatives, expand_query yields the original, the usable
\* alternative if there is one, then "Explain <original lower-cased>" and,
\* if still short, "What is <original lower-cased>?". Either way the request
\* goes on to retrieval: expansion never ends it.
FallbackVariants ==
    Expanded =>
        LET o == request.query
            usable == UsableAlternatives(llm[1].text)
            explain == ExplainPrefix \o Lower(o)
            what_is == WhatIsPrefix \o Lower(o) \o QuestionMark
        IN  /\ llm[1].kind # "ok" => query_variants = Thrice(o)
            /\ (llm[1].kind = "ok" /\ Len(usable) = 1) =>
                  query_variants = <<o, usable[1], explain>>
            /\ (llm[1].kind = "ok" /\ Len(usable) = 0) =>
                  query_variants = <<o, explain, what_is>>
ExpansionGoesOn ==
    (llm = <<>> /\ Len(llm') = 1) => (pc' = "retrieve" /\ IsNone(response'))
C3_ExpansionFallback == []FallbackVariants /\ [][ExpansionGoesOn]_vars
C3_Witness ==
    /\ JustExpanded /\ pc = "retrieve"
    /\ llm[1].kind = "ok" /\ Len(UsableAlternatives(llm[1].text)) = 1
    /\ query_variants[3] = ExplainPrefix \o Lower(request.query)

\* C4: whatever the provider does (a reply with 0, 1, 2 or more usable
\* lines, or a failure), expand_query returns exactly 3 strings, the first
\* of them the original query unchanged, and a successful response reports
\* exactly that list as query_variants.
C4_ThreeVariantsOriginalFirst ==
    Expanded =>
        /\ Len(query_variants) = 3
        /\ query_variants[1] = request.query
        /\ query_variants = expand_query(request.query, llm[1])
        /\ Succeeded => Body.query_variants = query_variants
C4_Witness ==
    /\ Succeeded
    /\ llm[1] = Replied(ReplyNumberedThree)
    /\ Body.query_variants[1] = request.query
    /\ Body.query_variants[2] # request.query

IndicesEmpty == index.index_to_chunk_id = <<>>
Selected == pc = "generate" \/ (pc = "done" /\ ~IsNone(validation_result))

\* C5: with empty indices a request with a recognised method completes
\* without error: every variant's retrieval returns the empty list, the
\* selection and the sources are empty, after_mmr is 0 and the validation
\* is the degenerate one (is_confident false, confidence_score 0,
\* retrieval_entropy 1.0, semantic_consistency 0).
C5_EmptyIndices ==
    (Received /\ IndicesEmpty /\ request.method \in Methods) =>
        /\ \A i \in 1..Len(results) : results[i] = <<>>
        /\ Selected => sel.selected_ids = <<>>
        /\ Responded =>
            /\ Val(response).kind = "ok"
            /\ Body.source_chunks = <<>>
            /\ Body.retrieval_stats.after_mmr = 0
            /\ Body.validation.entropy_analysis.is_confident = FALSE
            /\ Body.validation.entropy_analysis.confidence_score = 0
            /\ Body.validation.entropy_analysis.retrieval_entropy = Unit
            /\ Body.validation.entropy_analysis.semantic_consistency = 0
C5_Witness ==
    /\ Succeeded /\ IndicesEmpty /\ request.method = "hybrid"
    /\ Len(results) = 3
    /\ ~IsNone(index.faiss_index)

\* every score some variant's retrieval gave the chunk
ScoresGiven(chunk_id) ==
    {results[i][j].score : <<i, j>> \in
        {<<i, j>> \in (1..Len(results)) \X (1..(2 * MaxTopK * 2)) :
            j <= Len(results[i]) /\ results[i][j].id = chunk_id}}
RetrievedIds == UNION {Range(Ids(results[i])) : i \in 1..Len(results)}
MaxOf(S) == CHOOSE x \in S : \A y \in S : y <= x

\* C10: the deduplicated candidate sequence holds each chunk id that some
\* variant retrieved exactly once, with the maximum score any variant gave
\* it, in non-increasing score order; a source chunk's score in the
\* response is that maximum.
C10_DedupKeepsMaximum ==
    Selected =>
        LET d == sel.deduped_results
        IN  /\ IsInjective(Ids(d))
            /\ Range(Ids(d)) = RetrievedIds
            /\ \A i \in 1..Len(d) : d[i].score = MaxOf(ScoresGiven(d[i].id))
            /\ \A i \in 1..(Len(d) - 1) : d[i].score >= d[i + 1].score
            /\ Succeeded => \A i \in 1..Len(Body.source_chunks) :
                  Body.source_chunks[i].score = MaxOf(ScoresGiven(Body.source_chunks[i].chunk_id))
C10_Witness ==
    /\ Succeeded
    /\ Len(sel.deduped_results) = 2
    /\ Body.source_chunks # <<>>
    /\ \E i \in 1..Len(Body.source_chunks) :
          /\ Cardinality(ScoresGiven(Body.source_chunks[i].chunk_id)) > 1
          /\ Body.source_chunks[i].score > results[3][1].score
          /\ Body.source_chunks[i].chunk_id = results[3][1].id

\* C24: in every successful response the number of source chunks is at most
\* top_k and equals retrieval_stats.after_mmr, and after_mmr <= after_dedup
\* <= total_retrieved; with one chunk ingested and top_k = 1 the response has
\* exactly one source, that chunk, and after_mmr = 1.
C24_SourceCounts ==
    Succeeded =>
        /\ Len(Body.source_chunks) <= request.top_k
        /\ Len(Body.source_chunks) = Body.retrieval_stats.after_mmr
        /\ Body.retrieval_stats.after_mmr <= Body.retrieval_stats.after_dedup
        /\ Body.retrieval_stats.after_dedup <= Body.retrieval_stats.total_retrieved
        /\ (Len(db) = 1 /\ request.top_k = 1) =>
              /\ Len(Body.source_chunks) = 1
              /\ Body.source_chunks[1].chunk_id = db[1].id
              /\ Body.retrieval_stats.after_mmr = 1
C24_Witness ==
    /\ Succeeded
    /\ request.top_k = 1
    /\ Body.retrieval_stats.after_dedup = 2
    /\ Body.retrieval_stats.after_mmr = 1
    /\ Len(Body.source_chunks) = 1

(***************************************************************************)
(* Claims about what the validator is handed                               *)
(***************************************************************************)
\* the ids validate pools: the values of retrieval_by_variant, in order
PooledIds == Concat([i \in 1..Len(retrieval_by_variant) |-> retrieval_by_variant[i].ids])

\* C11: for a variant set of n entries the validator receives n raw id
\* lists, one per variant position, each the list that variant's retrieval
\* returned, also when variants are the same string; the pooled multiset
\* has as many elements as the n lists together.
C11_OneListPerVariant ==
    Selected =>
        /\ Len(retrieval_by_variant) = Len(query_variants)
        /\ \A i \in 1..Len(retrieval_by_variant) :
              retrieval_by_variant[i].ids = Ids(results[i])
        /\ Len(PooledIds) = Sum([i \in 1..Len(results) |-> Len(results[i])])

\* lines 174-183 run over the per-variant results taken in the given order
RECURSIVE MergeInOrder(_, _)
MergeInOrder(best, order) ==
    IF order = <<>> THEN best
    ELSE MergeInOrder(MergeBest(best, results[order[1]]), Tail(order))
DedupInOrder(order) == SortedByScoreDesc(MergeInOrder(<<>>, order))
CompletionOrders == {p \in InjSeqs(1..Len(results), Len(results)) : Len(p) = Len(results)}

MMRCalled == ~IsNone(fn_out) /\ ~IsNone(fn_args) /\ Val(fn_args).fn = "mmr"
MMRIn == Val(fn_args)
MMROut == Val(fn_out)
CandidateCount == Len(MMRIn.candidate_ids)
PositionOf(id) == CHOOSE i \in 1..CandidateCount : MMRIn.candidate_ids[i] = id
Relevance(id) == Cosine(MMRIn.query_embedding, MMRIn.candidate_embeddings[PositionOf(id)])
Similarity(id1, id2) ==
    Cosine(MMRIn.candidate_embeddings[PositionOf(id1)],
           MMRIn.candidate_embeddings[PositionOf(id2)])
\* the largest similarity of the candidate to the first n picks
MaxSimToPicks(id, n) ==
    MaxOf({Similarity(id, MMROut[j]) : j \in 1..n})

\* C13: maximal_marginal_relevance returns ids of the candidate list, none
\* twice, at most top_k of them; with C <= top_k candidates it returns the
\* candidate list unchanged, with C > top_k exactly top_k ids.
C13_MMRSelection ==
    MMRCalled =>
        /\ Range(MMROut) \subseteq Range(MMRIn.candidate_ids)
        /\ IsInjective(MMROut)
        /\ Len(MMROut) <= MMRIn.top_k
        /\ CandidateCount <= MMRIn.top_k => MMROut = MMRIn.candidate_ids
        /\ CandidateCount > MMRIn.top_k => Len(MMROut) = MMRIn.top_k
C13_Witness ==
    /\ MMRCalled /\ CandidateCount = 3 /\ MMRIn.top_k = 2
    /\ Len(MMROut) = 2 /\ MMROut[1] # MMRIn.candidate_ids[1]

\* the candidates by relevance, highest first, equal relevance in list order
ByRelevance ==
    Ids(SortedByScoreDesc([i \in 1..CandidateCount |->
            [id |-> MMRIn.candidate_ids[i], score |-> Relevance(MMRIn.candidate_ids[i])]]))

\* C14: with lambda = 1 and C > top_k candidates the result is the top_k
\* candidates in descending order of relevance to the query, whatever the
\* candidates' similarity to each other (strictly descending where the
\* relevances differ).
C14_LambdaOneIsRelevanceOrder ==
    (MMRCalled /\ MMRIn.lambda_param = Obj(Unit) /\ CandidateCount > MMRIn.top_k) =>
        /\ MMROut = Take(ByRelevance, MMRIn.top_k)
        /\ \A i \in 1..(Len(MMROut) - 1) : Relevance(MMROut[i]) >= Relevance(MMROut[i + 1])
C14_Witness ==
    /\ MMRCalled /\ MMRIn.lambda_param = Obj(Unit) /\ CandidateCount > MMRIn.top_k
    /\ MMRIn.top_k = 2
    /\ Relevance(MMROut[1]) > Relevance(MMROut[2])
    /\ MMROut # maximal_marginal_relevance(MMRIn.query_embedding, MMRIn.candidate_embeddings,
                                           MMRIn.candidate_ids, MMR_LAMBDA, MMRIn.top_k)

\* C15: with lambda = 0 and C > top_k candidates the seed is the most
\* relevant candidate and every later pick is the unselected candidate
\* whose largest similarity to the picks so far is smallest: relevance has
\* weight 0.
C15_LambdaZeroIsDiversityOnly ==
    (MMRCalled /\ MMRIn.lambda_param = Obj(0) /\ CandidateCount > MMRIn.top_k) =>
        /\ \A c \in Range(MMRIn.candidate_ids) : Relevance(c) <= Relevance(MMROut[1])
        /\ \A j \in 2..Len(MMROut) :
              \A c \in Range(MMRIn.candidate_ids) \ {MMROut[i] : i \in 1..(j - 1)} :
                  MaxSimToPicks(MMROut[j], j - 1) <= MaxSimToPicks(c, j - 1)

\* the lambda the selection runs with: the caller's, or settings.MMR_LAMBDA
\* where line 42 finds none
LambdaInUse ==
    IF IsNone(MMRIn.lambda_param) \/ MMRIn.lambda_param = Obj(0) THEN MMR_LAMBDA
    ELSE Val(MMRIn.lambda_param)
\* lambda * R[c] - (1 - lambda) * max similarity to the first n picks, in 1/Unit^2
MMRScore(id, n) == LambdaInUse * Relevance(id) - (Unit - LambdaInUse) * MaxSimToPicks(id, n)
\* the same with the similarity to the first pick alone
SeedOnlyScore(id) == LambdaInUse * Relevance(id) - (Unit - LambdaInUse) * Similarity(id, MMROut[1])

\* C25: with C > top_k candidates the first pick is a candidate of maximal
\* relevance, every later pick is an unselected candidate maximising
\* lambda*R[c] - (1-lambda)*max similarity to all the picks so far, and the
\* selection stops at top_k picks.
C25_GreedySelection ==
    (MMRCalled /\ CandidateCount > MMRIn.top_k) =>
        /\ Len(MMROut) = MMRIn.top_k
        /\ \A c \in Range(MMRIn.candidate_ids) : Relevance(c) <= Relevance(MMROut[1])
        /\ \A n \in 2..Len(MMROut) :
              /\ MMROut[n] \in Range(MMRIn.candidate_ids) \ {MMROut[i] : i \in 1..(n - 1)}
              /\ \A c \in Range(MMRIn.candidate_ids) \ {MMROut[i] : i \in 1..(n - 1)} :
                    MMRScore(c, n - 1) <= MMRScore(MMROut[n], n - 1)
C25_Witness ==
    /\ MMRCalled /\ CandidateCount = 4 /\ MMRIn.top_k = 3
    /\ Len(MMROut) = 3
    /\ \E c \in Range(MMRIn.candidate_ids) \ {MMROut[1], MMROut[2]} :
          SeedOnlyScore(c) > SeedOnlyScore(MMROut[3])

(***************************************************************************)
(* Claims about validate                                                   *)
(***************************************************************************)
ValidateCalled == ~IsNone(fn_args) /\ Val(fn_args).fn = "validate" /\ ~IsNone(fn_out)
ValidateIn == Val(fn_args)
ValidateOut == Val(fn_out)
ListOf(i) == ValidateIn.retrieval_by_variant[i].ids
RetrievedAtAll == UNION {Range(ListOf(i)) : i \in 1..Len(ValidateIn.retrieval_by_variant)}
\* the ids retrieved by at least two of the variants
AgreedIds ==
    {c \in RetrievedAtAll :
        Cardinality({i \in 1..Len(ValidateIn.retrieval_by_variant) : c \in Range(ListOf(i))}) >= 2}
NonDegenerate == ValidateCalled /\ RetrievedAtAll # {}
AllRetrieveOnly(c) ==
    /\ Len(ValidateIn.retrieval_by_variant) = 3
    /\ \A i \in 1..3 : ListOf(i) = <<c>>

\* C16: semantic_consistency is the fallback 0.3 exactly when fewer than two
\* chunk ids were retrieved by at least two of the variants, and then
\* is_confident is false whatever the entropy; three variants that each
\* retrieve only one and the same chunk give entropy 0, consistency 0.3 and
\* is_confident false.
C16_FallbackConsistency ==
    NonDegenerate =>
        /\ Cardinality(AgreedIds) < 2 <=> ValidateOut.semantic_consistency = LowConsistency
        /\ Cardinality(AgreedIds) < 2 => ~ValidateOut.is_confident
        /\ \A c \in RetrievedAtAll : AllRetrieveOnly(c) =>
              /\ ValidateOut.retrieval_entropy = 0
              /\ ValidateOut.semantic_consistency = LowConsistency
              /\ ~ValidateOut.is_confident
C16_Witness ==
    /\ ValidateCalled
    /\ AllRetrieveOnly(1)
    /\ ValidateOut.retrieval_entropy = 0
    /\ ValidateOut.semantic_consistency = LowConsistency

\* C17: for every non-degenerate validation is_confident is true if and only
\* if the normalized entropy is strictly below the entropy threshold and the
\* semantic consistency is strictly above 0.6.
C17_ConfidentIffBothBounds ==
    NonDegenerate =>
        (ValidateOut.is_confident <=>
            /\ ValidateOut.retrieval_entropy < ENTROPY_THRESHOLD
            /\ ValidateOut.semantic_consistency > ConsistencyBar)
C17_Witness ==
    /\ NonDegenerate
    /\ ValidateOut.is_confident
    /\ ValidateOut.retrieval_entropy > 0

\* C18: for every input to validate the returned confidence_score and
\* overall_confidence lie within [0, 1].
C18_ConfidenceInUnitRange ==
    ValidateCalled =>
        /\ ValidateOut.confidence_score >= 0 /\ ValidateOut.confidence_score <= Unit
        /\ ValidateOut.overall_confidence >= 0 /\ ValidateOut.overall_confidence <= Unit

\* the bucket of a normalized entropy: below 0.2, [0.2, 0.3), [0.3, 0.7], above 0.7
EntropyBucket(normalized_entropy) ==
    IF normalized_entropy < HighBelow THEN "HIGH CONFIDENCE"
    ELSE IF normalized_entropy < ENTROPY_THRESHOLD THEN "MODERATE CONFIDENCE"
    ELSE IF normalized_entropy <= LowAbove THEN "UNCERTAIN"
    ELSE "LOW CONFIDENCE"

\* C19 as stated: the interpretation is the one of the bucket fixed by the
\* normalized entropy alone.
C19_InterpretationByEntropy ==
    NonDegenerate => ValidateOut.interpretation = EntropyBucket(ValidateOut.retrieval_entropy)
\* C19 amended: the interpretation is the one of the entropy's bucket, except
\* that a result that is not confident with an entropy below 0.3 is 'uncertain'.
C19_InterpretationByEntropyAndConfidence ==
    NonDegenerate =>
        ValidateOut.interpretation =
            IF ~ValidateOut.is_confident /\ ValidateOut.retrieval_entropy < ENTROPY_THRESHOLD
            THEN "UNCERTAIN"
            ELSE EntropyBucket(ValidateOut.retrieval_entropy)
C19_Witness ==
    /\ NonDegenerate
    /\ ~ValidateOut.is_confident
    /\ ValidateOut.retrieval_entropy < HighBelow
    /\ ValidateOut.interpretation = "UNCERTAIN"

\* how often the id occurs in the pooled lists
PooledCount(c) ==
    Sum([i \in 1..Len(ValidateIn.retrieval_by_variant) |->
            Cardinality({j \in 1..Len(ListOf(i)) : ListOf(i)[j] = c})])
PooledTotal == Sum([i \in 1..Len(ValidateIn.retrieval_by_variant) |-> Len(ListOf(i))])
RECURSIVE SumCountLn(_)
SumCountLn(S) ==
    IF S = {} THEN 0
    ELSE LET c == CHOOSE x \in S : TRUE
         IN  PooledCount(c) * Ln(PooledCount(c)) + SumCountLn(S \ {c})
\* H = -sum p ln p = ln T - (sum f ln f) / T for the probabilities p = f / T
ShannonEntropy == (PooledTotal * Ln(PooledTotal) - SumCountLn(RetrievedAtAll)) \div PooledTotal

Pooled == Concat([i \in 1..Len(ValidateIn.retrieval_by_variant) |-> ListOf(i)])
FirstSeen(c) == CHOOSE i \in 1..Len(Pooled) : Pooled[i] = c /\ \A j \in 1..(i - 1) : Pooled[j] # c
\* the consensus chunks validate considers: the first five seen
Considered ==
    {c \in AgreedIds :
        Cardinality({d \in AgreedIds : FirstSeen(d) < FirstSeen(c)}) < ConsensusLimit}
Embedded(S) == {c \in S : HasChunk(ValidateIn.chunk_data, c)}
EmbeddingOf(c) == ChunkOf(ValidateIn.chunk_data, c).embedding
RECURSIVE SumCosines(_)
SumCosines(ps) ==
    IF ps = {} THEN 0
    ELSE LET pr == CHOOSE x \in ps : TRUE
         IN  Cosine(EmbeddingOf(pr[1]), EmbeddingOf(pr[2])) + SumCosines(ps \ {pr})
\* the mean of the cosines of the pairs of different chunks of S
MeanCosine(S) ==
    LET pairs == {pr \in S \X S : pr[1] < pr[2]}
    IN  SumCosines(pairs) \div Cardinality(pairs)

\* C27: with two or more consensus chunks validate considers at most five
\* of them; semantic_consistency is the mean pairwise cosine of the considered
\* ones that have an embedding, and the neutral 0.5 when exactly one has.
C27_ConsensusOfFive ==
    (ValidateCalled /\ Cardinality(AgreedIds) >= 2) =>
        /\ Cardinality(Considered) <= ConsensusLimit
        /\ Cardinality(Embedded(Considered)) >= 2 =>
              ValidateOut.semantic_consistency = MeanCosine(Embedded(Considered))
        /\ Cardinality(Embedded(Considered)) = 1 =>
              ValidateOut.semantic_consistency = NeutralConsistency
C27_Witness ==
    /\ ValidateCalled
    /\ Cardinality(AgreedIds) > ConsensusLimit
    /\ Embedded(AgreedIds) = AgreedIds
    /\ ValidateOut.semantic_consistency = MeanCosine(Considered)
    /\ MeanCosine(Considered) # MeanCosine(AgreedIds)

(***************************************************************************)
(* Claims about check_grounding                                            *)
(***************************************************************************)
GroundingCalled == ~IsNone(fn_args) /\ Val(fn_args).fn = "check_grounding" /\ ~IsNone(fn_out)
GroundingIn == Val(fn_args)
GroundingOut == Val(fn_out)
AnswerTokens == Normalize(GroundingIn.answer)
SourceTokens ==
    UNION {Normalize(GroundingIn.source_chunks[i]) : i \in 1..Len(GroundingIn.source_chunks)}
Shared == Cardinality(AnswerTokens \cap SourceTokens)
\* Shared / |AnswerTokens| >= bound, for a bound in 1/Unit
OverlapAtLeast(bound) == Shared * Unit >= bound * Cardinality(AnswerTokens)

\* C20: overlap_ratio is |answer tokens in the sources| / |answer tokens|, in
\* [0, 1]; is_grounded holds iff the ratio is at least the grounding threshold;
\* confidence is 'high' iff the ratio is at least 0.8, 'medium' iff it is in
\* [0.6, 0.8), 'low' otherwise, whatever the grounding threshold.
C20_GroundingByOverlap ==
    GroundingCalled /\ AnswerTokens # {} =>
        /\ GroundingOut.overlap_ratio = (Shared * Unit) \div Cardinality(AnswerTokens)
        /\ GroundingOut.overlap_ratio >= 0 /\ GroundingOut.overlap_ratio <= Unit
        /\ GroundingOut.is_grounded <=> OverlapAtLeast(GroundingIn.threshold)
        /\ GroundingOut.confidence = "high" <=> OverlapAtLeast(HighOverlap)
        /\ GroundingOut.confidence = "medium" <=>
              OverlapAtLeast(MediumOverlap) /\ ~OverlapAtLeast(HighOverlap)
        /\ GroundingOut.confidence = "low" <=> ~OverlapAtLeast(MediumOverlap)
C20_Witness ==
    /\ GroundingCalled
    /\ GroundingIn.threshold = GROUNDING_THRESHOLD
    /\ Cardinality(AnswerTokens) = 3 /\ Shared = 2
    /\ GroundingOut.confidence = "medium"
    /\ ~GroundingOut.is_grounded

IsSubstring(a, text) == \E i \in 1..(Len(text) + 1) : SubSeq(text, i, i + Len(a) - 1) = a
\* the tokens as the specification words them: lower-case, split on
\* whitespace, strip the surrounding punctuation, keep what is then
\* alphanumeric and of length >= 3
StrippedTokens(text) ==
    LET words == Split(Lower(text))
        stripped == {StripChars(words[i], Punctuation) : i \in 1..Len(words)}
    IN  {w \in stripped : IsAlnum(w) /\ Len(w) >= MinWordLen}

\* C21: an answer that is a verbatim substring of the source text and has at
\* least one valid token gets overlap_ratio 1.0, is_grounded true and
\* confidence 'high'.
C21_VerbatimIsGrounded ==
    (/\ GroundingCalled
     /\ IsSubstring(GroundingIn.answer, JoinWithSpace(GroundingIn.source_chunks))
     /\ StrippedTokens(GroundingIn.answer) # {}) =>
        /\ GroundingOut.overlap_ratio = Unit
        /\ GroundingOut.is_grounded
        /\ GroundingOut.confidence = "high"

\* C22: an answer with no alphanumeric token of length >= 3 (the empty answer
\* included) gets is_grounded false, overlap_ratio 0.0 and confidence 'low',
\* whatever the source chunks are.
C22_NoTokenIsLow ==
    (GroundingCalled /\ StrippedTokens(GroundingIn.answer) = {}) =>
        GroundingOut = [is_grounded |-> FALSE, overlap_ratio |-> 0, confidence |-> "low"]
C22_Witness ==
    /\ GroundingCalled
    /\ GroundingIn.answer # <<>>
    /\ StrippedTokens(GroundingIn.answer) = {}
    /\ SourceTokens # {}
    /\ ~GroundingOut.is_grounded /\ GroundingOut.confidence = "low"

\* C28: normalization strips the surrounding punctuation of each word and then
\* keeps the word if the stripped form is alphanumeric with length >= 3, for
\* the answer and the sources alike.
C28_StripThenKeep ==
    GroundingCalled =>
        /\ Normalize(GroundingIn.answer) = StrippedTokens(GroundingIn.answer)
        /\ Normalize(JoinWithSpace(GroundingIn.source_chunks))
             = StrippedTokens(JoinWithSpace(GroundingIn.source_chunks))

(***************************************************************************)
(* Claims about chunk_text                                                 *)
(***************************************************************************)
ChunkReturned == ChunkCalled /\ ~IsNone(fn_out) /\ Val(fn_out).returned
ChunkTokens == Val(fn_args).tokens
ChunksOut == Val(fn_out).chunks
\* chunk_size and overlap as the caller means them: the settings where left out
SizeMeant == IF IsNone(Val(fn_args).chunk_size) THEN CHUNK_SIZE ELSE Val(Val(fn_args).chunk_size)
OverlapMeant == IF IsNone(Val(fn_args).overlap) THEN CHUNK_OVERLAP ELSE Val(Val(fn_args).overlap)
\* chunk i (from 0) is the tokens from i * (chunk_size - overlap) up to
\* chunk_size tokens later; consecutive chunks share overlap tokens; the last
\* chunk ends at the last token
ChunksCover ==
    LET step == SizeMeant - OverlapMeant
        First(i) == (i - 1) * step + 1
        Last(i) == Min(Len(ChunkTokens), (i - 1) * step + SizeMeant)
    IN  /\ \A i \in 1..Len(ChunksOut) : ChunksOut[i] = SubSeq(ChunkTokens, First(i), Last(i))
        /\ \A i \in 1..(Len(ChunksOut) - 1) : Last(i) - First(i + 1) + 1 = OverlapMeant
        /\ ChunkTokens # <<>> => ChunksOut # <<>> /\ Last(Len(ChunksOut)) = Len(ChunkTokens)
        /\ ChunkTokens = <<>> => ChunksOut = <<>>

\* C30: chunk_text terminates for every token sequence and every
\* chunk_size > overlap >= 0, overlap = 0 included, and the chunks it returns
\* cover every token in order, consecutive chunks sharing exactly overlap
\* tokens and the last chunk ending at the last token. Chunks that start
\* chunk_size - overlap >= 1 tokens apart are at most len(tokens) many: the
\* loop has returned before it has made len(tokens) passes without returning.
C30_ChunkTextTerminatesAndCovers ==
    ChunkCalled /\ ~IsNone(fn_out) =>
        /\ ~Val(fn_out).returned => Len(ChunksOut) < Len(ChunkTokens)
        /\ Val(fn_out).returned => ChunksCover

(***************************************************************************)
(* Claims about the indices of the running service                         *)
(***************************************************************************)
FaissSize == Len(Val(index.faiss_index))
\* position p of the vector index and of the keyword corpus hold the chunk
\* the mapping names for p
Aligned ==
    \A p \in 1..Len(index.index_to_chunk_id) :
        /\ p <= FaissSize => Val(index.faiss_index)[p].of = index.index_to_chunk_id[p]
        /\ p <= Len(index.bm25_corpus) => index.bm25_corpus[p] = index.index_to_chunk_id[p]

\* C29: after startup and any sequence of ingest_document calls, successful
\* or failing part-way, with no ingest in progress, the FAISS index size, the
\* keyword corpus length and the length of index_to_chunk_id are equal, and
\* position p of the vector index and of the corpus hold chunk
\* index_to_chunk_id[p].
C29_IndicesAgree ==
    Started /\ IsNone(ingest) =>
        /\ FaissSize = Len(index.bm25_corpus)
        /\ Len(index.bm25_corpus) = Len(index.index_to_chunk_id)
        /\ Aligned

\* the index as the ingest in progress leaves it when it succeeds
AfterIngest == Rebuilt(WithTokens(WithVectors(Val(ingest).before, Val(ingest).new), Val(ingest).new))
QueryDuringIngest == ~IsNone(reads) /\ ~IsNone(ingest) /\ Val(reads).seen # <<>>

\* C23: a query handled while an ingestion is in progress reads one index
\* state in all its retrieval calls, and that state is the one from before
\* the ingest or the one after it, never one in between.
C23_OneIndexStatePerQuery ==
    QueryDuringIngest =>
        \A i \in 1..Len(Val(reads).seen) :
            /\ Val(reads).seen[i].index = Val(reads).seen[1].index
            /\ Val(reads).seen[i].index \in {Val(ingest).before, AfterIngest}
C23_Witness ==
    /\ QueryDuringIngest
    /\ Len(Val(reads).seen) = VariantsPerQuery
    /\ Val(reads).seen[1].index.index_to_chunk_id # <<>>

====
